---- MODULE Spec2Model ----
(***************************************************************************)
(* Join-graph resolver of app/domain/fk_analyzer.py: the snapshot builder  *)
(* (_build_snapshot), the shortest-path resolver (shortest_join_path), the *)
(* multi-table connector (connect_tables) and the step materializer        *)
(* (_edge_to_step), over the foreign-key metadata a provider supplies.     *)
(*                                                                         *)
(* Table indices are 1-based here (Python index i is i+1 in the model).    *)
(* Python None is the string "None".                                       *)
(***************************************************************************)
EXTENDS Integers, Sequences, FiniteSets, TLC

VARIABLES
    tables,         \* provider: get_table_names()
    fk_by_table,    \* provider: get_foreign_keys(t), for every table t
    heap_order,     \* library: tie-breaking of shortest_path, per source index
    set_order,      \* runtime: iteration order of a set of index pairs
    cache,          \* lru_cache of _build_snapshot: a snapshot, or NoSnapshot
    log,            \* the warnings logger.warning has emitted
    result,         \* the outcome of the request being answered, or Idle
    previous,       \* the outcome the caller has kept from an earlier request
    output,         \* what the join_path tool has returned, or NoOutput
    db,             \* per database: how often its foreign-key metadata changed
    objects,        \* the SqlForeignKeyInfo objects made so far
    fk_info_cache,  \* lru_cache of get_fk_info
    snapshots,      \* lru_cache of _build_snapshot, as the threads share it
    clears,         \* how often clear_cache() has been called
    signalled,      \* per database: its latest change was followed by
                    \* clear_cached_fk_info
    pc,             \* per thread: where it is in its request
    frame           \* per thread: the request and its local variables

service_vars == <<db, objects, fk_info_cache, snapshots, clears, signalled, pc, frame>>

vars ==
    <<tables, fk_by_table, heap_order, set_order, cache, log, result, previous,
      output, service_vars>>

----------------------------------------------------------------------------
(* Bounds and universes *)

\* At most this many foreign-key records in the provider's metadata.
MaxFKs == 4
\* At most this many names in the list given to connect_tables.
MaxReq == 3

\* At most this many threads call the resolver at once.
MaxThreads == 2
\* A database's metadata changes at most this often.
MaxChanges == 1
\* clear_cache() is called at most this often.
MaxClears == 1
\* At most this many SqlForeignKeyInfo objects are made.
MaxObjects == 2

\* lru_cache(maxsize=16), of _build_snapshot and of get_fk_info.
MaxSize == 16

None == "None"

\* `_tables is None`: the object has not loaded its metadata.
NotLoaded == -1

\* pred sentinel of scipy's shortest_path, tested by _reconstruct_path.
NoPred == -9999

\* Stands for numpy's inf in a distance row.
Inf == -1

\* The table names of the schema, in the order the provider lists them.
TableList == <<"c", "a", "d", "b">>

\* Names a request may carry: three of the tables and one name no schema
\* has (table c is only ever passed through).
RequestNames == {"a", "b", "d", "zz"}

\* Python's string order on every name that gets sorted.
NameOrder ==
    <<"a", "b", "c", "customers", "d", "ghost", "order_items", "orders",
      "products", "zz">>

\* The foreign-key records a schema is drawn from, as the inspector returns
\* them (dict keys name, referred_table, constrained_columns,
\* referred_columns), each with the table that owns it.  A schema holds a
\* subset, in this order.
Catalog == <<
    [owner |-> "c", name |-> "fk_cd", referred_table |-> "d",
     constrained_columns |-> <<"d_id">>, referred_columns |-> <<"id">>],
    [owner |-> "a", name |-> "fk_ab", referred_table |-> "b",
     constrained_columns |-> <<"b_id">>, referred_columns |-> <<"id">>],
    [owner |-> "a", name |-> "fk_ab2", referred_table |-> "b",
     constrained_columns |-> <<"k1", "k2", "k3">>,
     referred_columns |-> <<"u1", "u2">>],
    [owner |-> "a", name |-> None, referred_table |-> "c",
     constrained_columns |-> <<"c_id">>, referred_columns |-> <<"id">>],
    [owner |-> "a", name |-> "fk_self", referred_table |-> "a",
     constrained_columns |-> <<"parent">>, referred_columns |-> <<"id">>],
    [owner |-> "d", name |-> "fk_db", referred_table |-> "b",
     constrained_columns |-> <<"b_id">>, referred_columns |-> <<"id">>],
    [owner |-> "d", name |-> "fk_dg", referred_table |-> "ghost",
     constrained_columns |-> <<"g_id">>, referred_columns |-> <<"id">>],
    [owner |-> "d", name |-> "fk_bad", referred_table |-> "b",
     constrained_columns |-> <<>>, referred_columns |-> <<>>],
    [owner |-> "b", name |-> "fk_ba", referred_table |-> "a",
     constrained_columns |-> <<"a_id">>, referred_columns |-> <<"id">>],
    [owner |-> "b", name |-> "fk_bd", referred_table |-> "d",
     constrained_columns |-> <<"d_id">>, referred_columns |-> <<>>]
>>

\* A second schema, taken whole: an order book of four tables, where orders
\* refer to customers and order items refer to orders and to products.
ShopTables == <<"orders", "customers", "products", "order_items">>

ShopForeignKeys ==
    [orders |-> <<
         [owner |-> "orders", name |-> "fk_orders_customer",
          referred_table |-> "customers",
          constrained_columns |-> <<"customer_id">>, referred_columns |-> <<"id">>]>>,
     customers |-> <<>>,
     products |-> <<>>,
     order_items |-> <<
         [owner |-> "order_items", name |-> "fk_items_order",
          referred_table |-> "orders",
          constrained_columns |-> <<"order_id">>, referred_columns |-> <<"id">>],
         [owner |-> "order_items", name |-> "fk_items_product",
          referred_table |-> "products",
          constrained_columns |-> <<"product_id">>, referred_columns |-> <<"id">>]>>]

\* Names a request on the order book may carry.
ShopRequestNames == {"orders", "customers", "products", "order_items"}

\* A third schema, taken whole: a help desk of nine tables in which accounts
\* reach addresses by two routes of equal length, through billing and
\* through shipping.
DeskTables ==
    <<"tickets", "agents", "teams", "accounts", "billing", "shipping", "addresses",
      "plans", "features">>

DeskForeignKeys ==
    [tickets |-> <<
         [owner |-> "tickets", name |-> "fk_tickets_agent", referred_table |-> "agents",
          constrained_columns |-> <<"agent_id">>, referred_columns |-> <<"id">>]>>,
     agents |-> <<
         [owner |-> "agents", name |-> "fk_agents_team", referred_table |-> "teams",
          constrained_columns |-> <<"team_id">>, referred_columns |-> <<"id">>]>>,
     teams |-> <<
         [owner |-> "teams", name |-> "fk_teams_account", referred_table |-> "accounts",
          constrained_columns |-> <<"account_id">>, referred_columns |-> <<"id">>]>>,
     accounts |-> <<
         [owner |-> "accounts", name |-> "fk_accounts_plan", referred_table |-> "plans",
          constrained_columns |-> <<"plan_id">>, referred_columns |-> <<"id">>]>>,
     billing |-> <<
         [owner |-> "billing", name |-> "fk_billing_account",
          referred_table |-> "accounts",
          constrained_columns |-> <<"account_id">>, referred_columns |-> <<"id">>],
         [owner |-> "billing", name |-> "fk_billing_address",
          referred_table |-> "addresses",
          constrained_columns |-> <<"address_id">>, referred_columns |-> <<"id">>]>>,
     shipping |-> <<
         [owner |-> "shipping", name |-> "fk_shipping_account",
          referred_table |-> "accounts",
          constrained_columns |-> <<"account_id">>, referred_columns |-> <<"id">>],
         [owner |-> "shipping", name |-> "fk_shipping_address",
          referred_table |-> "addresses",
          constrained_columns |-> <<"address_id">>, referred_columns |-> <<"id">>]>>,
     addresses |-> <<>>,
     plans |-> <<>>,
     features |-> <<
         [owner |-> "features", name |-> "fk_features_plan", referred_table |-> "plans",
          constrained_columns |-> <<"plan_id">>, referred_columns |-> <<"id">>]>>]

\* Names a request on the help desk may carry.
DeskRequestNames == {"tickets", "addresses", "features"}

\* The orders in which the runtime may iterate a set of indices: ascending
\* and descending.
SetOrders ==
    {[i \in 1..Len(TableList) |-> i], [i \in 1..Len(TableList) |-> Len(TableList) + 1 - i]}

NoSnapshot == [built |-> FALSE]
Idle == [op |-> "idle"]

\* The databases of the registry, each holding the order book at first.
Databases == {"db1"}

Threads == 1..MaxThreads

\* The foreign keys a database gains: the first i of them by its i-th change.
AddedForeignKeys == <<
    [owner |-> "orders", name |-> "fk_orders_product", referred_table |-> "products",
     constrained_columns |-> <<"product_id">>, referred_columns |-> <<"id">>],
    [owner |-> "customers", name |-> "fk_customers_product",
     referred_table |-> "products",
     constrained_columns |-> <<"favourite_id">>, referred_columns |-> <<"id">>],
    [owner |-> "products", name |-> "fk_products_customer",
     referred_table |-> "customers",
     constrained_columns |-> <<"maker_id">>, referred_columns |-> <<"id">>]
>>

\* The requests the threads make.
ServiceRequests ==
    {[op |-> "shortest_join_path", args |-> <<"orders", "products">>],
     [op |-> "connect_tables", args |-> <<"customers", "products">>],
     [op |-> "connect_tables", args |-> <<"orders">>]}

\* A thread that is in no request.
NoFrame == [op |-> "none"]

\* The join_path tool has returned nothing yet.
NoOutput == [returned |-> FALSE]

----------------------------------------------------------------------------
(* Sequence helpers *)

Range(s) == {s[i] : i \in 1..Len(s)}

Min(S) == CHOOSE x \in S : \A y \in S : x <= y
Max(S) == CHOOSE x \in S : \A y \in S : x >= y

Reverse(s) == [i \in 1..Len(s) |-> s[Len(s) + 1 - i]]

\* Position of x in sequence s (first occurrence).
IndexOf(s, x) == Min({i \in 1..Len(s) : s[i] = x})

\* The elements of S as a sequence ascending by the rank function key.
RECURSIVE SortBy(_, _)
SortBy(S, key) ==
    IF S = {} THEN <<>>
    ELSE LET m == CHOOSE x \in S : \A y \in S : key[x] <= key[y]
         IN  <<m>> \o SortBy(S \ {m}, key)

NameRank == [n \in Range(NameOrder) |-> IndexOf(NameOrder, n)]

\* sorted(names)
SortedNames(S) == SortBy(S, NameRank)

\* Variant: the list is taken as given, duplicates included.
DedupSkipped(xs) == xs

\* list(dict.fromkeys(xs)): first occurrences, in order.
RECURSIVE DedupKeepFirst(_)
DedupKeepFirst(xs) ==
    IF xs = <<>> THEN <<>>
    ELSE LET init == DedupKeepFirst(SubSeq(xs, 1, Len(xs) - 1))
             last == xs[Len(xs)]
         IN  IF last \in Range(init) THEN init ELSE Append(init, last)

\* zip(xs, ys): pairs up to the shorter length.
Zip(xs, ys) ==
    [i \in 1..(IF Len(xs) <= Len(ys) THEN Len(xs) ELSE Len(ys)) |-> <<xs[i], ys[i]>>]

----------------------------------------------------------------------------
(* Provider *)

\* get_foreign_keys(t): the records of a chosen catalogue subset that t owns.
ProviderForeignKeys(chosen, t) ==
    LET keep(i) == i \in chosen /\ Catalog[i].owner = t
        RECURSIVE Pick(_)
        Pick(i) == IF i > Len(Catalog) THEN <<>>
                   ELSE (IF keep(i) THEN <<Catalog[i]>> ELSE <<>>) \o Pick(i + 1)
    IN  Pick(1)

----------------------------------------------------------------------------
(* _build_snapshot *)

\* name_to_idx = {t: i for i, t in enumerate(tables)}
NameToIdx(ts) == [t \in Range(ts) |-> Max({i \in 1..Len(ts) : ts[i] = t})]

\* ForeignKeyConstraint(name, from_table=t, to_table=ref, zip(cons, refs))
MakeConstraint(t, fk) ==
    [name |-> fk.name, from_table |-> t, to_table |-> fk.referred_table,
     column_pairs |-> Zip(fk.constrained_columns, fk.referred_columns)]

\* `if not ref or not cons: continue`
SkippedSilently(fk) ==
    fk.referred_table = None \/ fk.referred_table = "" \/ fk.constrained_columns = <<>>

\* Variant: the pair's entry is assigned, replacing what was recorded.
AppendConstraintAssign(ec, key, c) ==
    [k \in DOMAIN ec \cup {key} |-> IF k = key THEN <<c>> ELSE ec[k]]

\* edge_constraints.setdefault(frozenset({t, ref}), []).append(c)
AppendConstraint(ec, key, c) ==
    IF key \in DOMAIN ec
    THEN [ec EXCEPT ![key] = Append(@, c)]
    ELSE [k \in DOMAIN ec \cup {key} |-> IF k = key THEN <<c>> ELSE ec[k]]

\* Variant: a dangling reference is skipped without being noted.
BuildStepSilent(acc, n2i, t, fk) ==
    IF SkippedSilently(fk) \/ fk.referred_table \notin DOMAIN n2i THEN acc
    ELSE LET ui == n2i[t]
             vi == n2i[fk.referred_table]
         IN  [acc EXCEPT
                 !.edge_constraints =
                     AppendConstraint(@, {t, fk.referred_table}, MakeConstraint(t, fk)),
                 !.rows = @ \o <<ui, vi>>,
                 !.cols = @ \o <<vi, ui>>,
                 !.data = @ \o <<1, 1>>]

\* Variant: the edge is entered in one direction only, from the declaring
\* table to the referenced one.
BuildStepOneWay(acc, n2i, t, fk) ==
    IF SkippedSilently(fk) THEN acc
    ELSE IF fk.referred_table \notin DOMAIN n2i
    THEN [acc EXCEPT !.missing_refs = @ \cup {<<t, fk.referred_table>>}]
    ELSE LET ui == n2i[t]
             vi == n2i[fk.referred_table]
         IN  [acc EXCEPT
                 !.edge_constraints =
                     AppendConstraint(@, {t, fk.referred_table}, MakeConstraint(t, fk)),
                 !.rows = @ \o <<ui>>,
                 !.cols = @ \o <<vi>>,
                 !.data = @ \o <<1>>]

\* One pass of the inner loop body for record fk of table t.
BuildStep(acc, n2i, t, fk) ==
    IF SkippedSilently(fk) THEN acc
    ELSE IF fk.referred_table \notin DOMAIN n2i
    THEN [acc EXCEPT !.missing_refs = @ \cup {<<t, fk.referred_table>>}]
    ELSE LET ui == n2i[t]
             vi == n2i[fk.referred_table]
         IN  [acc EXCEPT
                 !.edge_constraints =
                     AppendConstraint(@, {t, fk.referred_table}, MakeConstraint(t, fk)),
                 !.rows = @ \o <<ui, vi>>,
                 !.cols = @ \o <<vi, ui>>,
                 !.data = @ \o <<1, 1>>]

\* `for fk in fk_info.get_foreign_keys(t) or ()`, records k..end.
RECURSIVE BuildTable(_, _, _, _, _)
BuildTable(acc, n2i, t, fks, k) ==
    IF k > Len(fks) THEN acc
    ELSE BuildTable(BuildStep(acc, n2i, t, fks[k]), n2i, t, fks, k + 1)

\* `for t in tables`, tables i..end.
RECURSIVE BuildTables(_, _, _, _, _)
BuildTables(acc, n2i, ts, fkmap, i) ==
    IF i > Len(ts) THEN acc
    ELSE BuildTables(BuildTable(acc, n2i, ts[i], fkmap[ts[i]], 1), n2i, ts, fkmap, i + 1)

\* coo_matrix((data, (rows, cols)), shape=(n, n)).tocsr(): duplicates summed.
ToCsr(rows, cols, data, n) ==
    [i \in 1..n |-> [j \in 1..n |->
        LET hits == {k \in 1..Len(rows) : rows[k] = i /\ cols[k] = j}
            RECURSIVE Sum(_)
            Sum(S) == IF S = {} THEN 0
                      ELSE LET k == CHOOSE x \in S : TRUE IN data[k] + Sum(S \ {k})
        IN  Sum(hits)]]

\* The undirected neighbours of i: stored entries of row i and of column i.
Neighbours(csr, i) ==
    {j \in DOMAIN csr : csr[i][j] /= 0 \/ csr[j][i] /= 0}

\* The indices reachable from the set S along undirected edges.
RECURSIVE Reach(_, _)
Reach(csr, S) ==
    LET next == S \cup UNION {Neighbours(csr, i) : i \in S}
    IN  IF next = S THEN S ELSE Reach(csr, next)

\* Variant: a table is labelled by its direct neighbours only.
ConnectedComponentsOneHop(csr) ==
    LET n == Cardinality(DOMAIN csr)
        root(i) == Min(Neighbours(csr, i) \cup {i})
    IN  [i \in 1..n |-> Cardinality({root(j) : j \in 1..root(i)}) - 1]

\* connected_components(csr, directed=False)[1]: labels 0, 1, ... in the
\* order of each component's lowest index.
ConnectedComponents(csr) ==
    LET n == Cardinality(DOMAIN csr)
        root(i) == Min(Reach(csr, {i}))
    IN  [i \in 1..n |-> Cardinality({root(j) : j \in 1..root(i)}) - 1]

\* missing_pairs of the warning: sorted(missing_refs), as (src, dst) pairs.
MissingPairs(missing_refs) ==
    LET rank == [p \in missing_refs |->
                    NameRank[p[1]] * (Len(NameOrder) + 1) + NameRank[p[2]]]
    IN  SortBy(missing_refs, rank)

\* The loop of _build_snapshot over the provider's output.
BuildLoop(ts, fkmap) ==
    BuildTables([edge_constraints |-> << >>, rows |-> <<>>, cols |-> <<>>,
                 data |-> <<>>, missing_refs |-> {}],
                NameToIdx(ts), ts, fkmap, 1)

\* FKSnapshot(csr, name_to_idx, idx_to_name, comps, edge_constraints)
BuildSnapshot(ts, fkmap) ==
    LET acc == BuildLoop(ts, fkmap)
        csr == ToCsr(acc.rows, acc.cols, acc.data, Len(ts))
    IN  [built |-> TRUE,
         csr |-> csr,
         name_to_idx |-> NameToIdx(ts),
         idx_to_name |-> ts,
         components |-> ConnectedComponents(csr),
         edge_constraints |-> acc.edge_constraints]

\* The warnings the build logs: one, when missing_refs is not empty.
BuildWarnings(ts, fkmap) ==
    LET acc == BuildLoop(ts, fkmap)
    IN  IF acc.missing_refs /= {} THEN {MissingPairs(acc.missing_refs)} ELSE {}

----------------------------------------------------------------------------
(* scipy.sparse.csgraph, as the resolver uses it *)

\* Distance row of shortest_path(csr, directed=False, unweighted=True,
\* indices=s): the number of edges of a shortest path, Inf when unreachable.
RECURSIVE DistFrom(_, _, _, _)
DistFrom(csr, frontier, seen, d) ==
    LET next == UNION {Neighbours(csr, i) : i \in frontier} \ seen
        here == [i \in frontier |-> d]
        rest == IF next = {} THEN << >> ELSE DistFrom(csr, next, seen \cup next, d + 1)
    IN  [i \in frontier \cup DOMAIN rest |-> IF i \in frontier THEN d ELSE rest[i]]

ShortestDist(csr, s) ==
    LET reached == DistFrom(csr, {s}, {s}, 0)
    IN  [i \in DOMAIN csr |-> IF i \in DOMAIN reached THEN reached[i] ELSE Inf]

\* The predecessor of v under distance row dist: NoPred for the source and
\* for unreachable indices, else a neighbour one edge nearer to the source;
\* which one, among several, is the library's choice (lowFirst).
PredOf(csr, dist, s, v, lowFirst) ==
    LET cands == {u \in Neighbours(csr, v) : dist[u] /= Inf /\ dist[u] + 1 = dist[v]}
    IN  IF v = s \/ dist[v] = Inf THEN NoPred
        ELSE IF lowFirst THEN Min(cands) ELSE Max(cands)

\* dist, pred = shortest_path(csr, directed=False, unweighted=True,
\* indices=s, return_predecessors=True)
ShortestPath(csr, s, lowFirst) ==
    LET dist == ShortestDist(csr, s)
    IN  [dist |-> dist,
         pred |-> [v \in DOMAIN csr |-> PredOf(csr, dist, s, v, lowFirst)]]

\* Whether the predecessor row from s depends on the library's choice.
HasTie(csr, s) ==
    LET dist == ShortestDist(csr, s)
    IN  \E v \in DOMAIN csr :
            /\ v /= s
            /\ dist[v] /= Inf
            /\ Cardinality({u \in Neighbours(csr, v) : dist[u] + 1 = dist[v]}) > 1

\* minimum_spanning_tree(csr_matrix(W)).tocoo() for a k x k matrix W: Kruskal
\* over the stored entries (the non-zero ones) in ascending weight, row-major
\* among equal weights; the kept entries (row, col), in row-major order.
\* Diagonal entries (inf) join nothing and are dropped.
RECURSIVE Kruskal(_, _, _, _)
Kruskal(entries, i, comp, kept) ==
    IF i > Len(entries) THEN kept
    ELSE LET e == entries[i]
             a == comp[e[1]]
             b == comp[e[2]]
         IN  IF a = b THEN Kruskal(entries, i + 1, comp, kept)
             ELSE Kruskal(entries, i + 1,
                          [x \in DOMAIN comp |-> IF comp[x] = b THEN a ELSE comp[x]],
                          kept \cup {e})

\* Variant: no tree is extracted, every entry above the diagonal is kept.
MinimumSpanningTreeAllEntries(W, k) ==
    LET kept == {<<i, j>> \in (1..k) \X (1..k) : i < j}
    IN  SortBy(kept, [c \in kept |-> (c[1] - 1) * k + (c[2] - 1)])

MinimumSpanningTree(W, k) ==
    LET cells == {<<i, j>> \in (1..k) \X (1..k) : i /= j /\ W[i][j] /= 0}
        pos == [c \in cells |-> (c[1] - 1) * k + (c[2] - 1)]
        rank == [c \in cells |-> W[c[1]][c[2]] * (k * k) + pos[c]]
        kept == Kruskal(SortBy(cells, rank), 1, [x \in 1..k |-> x], {})
    IN  SortBy(kept, [c \in kept |-> pos[c]])

----------------------------------------------------------------------------
(* Helpers of the resolver *)

\* Variant: only the first unknown name is collected.
MissingNamesFirstOnly(g, names) ==
    LET all == SelectSeq(names, LAMBDA t : t \notin DOMAIN g.name_to_idx)
    IN  IF all = <<>> THEN <<>> ELSE <<all[1]>>

\* _ensure_known: the requested names that are not tables, in request order.
MissingNames(g, names) ==
    SelectSeq(names, LAMBDA t : t \notin DOMAIN g.name_to_idx)

\* Variant: the collected path is returned without `path.reverse()`.
RECURSIVE ReconstructLoopUnreversed(_, _, _, _)
ReconstructLoopUnreversed(pred_row, s, cur, path) ==
    IF cur /= NoPred /\ cur /= s
    THEN ReconstructLoopUnreversed(pred_row, s, pred_row[cur], Append(path, cur))
    ELSE Append(path, s)

\* Variant: the loop body runs once before its condition is tested, so the
\* target is appended even when it is the source.
RECURSIVE ReconstructLoopDoWhile(_, _, _, _)
ReconstructLoopDoWhile(pred_row, s, cur, path) ==
    IF path = <<>> \/ (cur /= NoPred /\ cur /= s)
    THEN ReconstructLoopDoWhile(pred_row, s, pred_row[cur], Append(path, cur))
    ELSE Reverse(Append(path, s))

\* _reconstruct_path, from cur back to s; path holds the indices appended.
RECURSIVE ReconstructLoop(_, _, _, _)
ReconstructLoop(pred_row, s, cur, path) ==
    IF cur /= NoPred /\ cur /= s
    THEN ReconstructLoop(pred_row, s, pred_row[cur], Append(path, cur))
    ELSE Reverse(Append(path, s))

ReconstructPath(pred_row, s, t) == ReconstructLoop(pred_row, s, t, <<>>)

\* Variant: the pairs are kept as the constraint has them.
SwapPairsKept(pairs) == pairs

\* The pairs of a constraint, each swapped.
SwapPairs(pairs) == [i \in 1..Len(pairs) |-> <<pairs[i][2], pairs[i][1]>>]

\* Variant: a constraint from a to b is looked for first, through the whole
\* list, and one from b to a only when there is none.
EdgeToStepTwoPass(cs, a, b, k) ==
    LET fwd == {i \in k..Len(cs) : cs[i].from_table = a /\ cs[i].to_table = b}
        bwd == {i \in k..Len(cs) : cs[i].from_table = b /\ cs[i].to_table = a}
    IN  IF fwd /= {}
        THEN [ok |-> TRUE, left_table |-> a, right_table |-> b,
              column_pairs |-> cs[Min(fwd)].column_pairs,
              constraint_name |-> cs[Min(fwd)].name]
        ELSE IF bwd /= {}
        THEN [ok |-> TRUE, left_table |-> a, right_table |-> b,
              column_pairs |-> SwapPairs(cs[Min(bwd)].column_pairs),
              constraint_name |-> cs[Min(bwd)].name]
        ELSE [ok |-> FALSE]

\* Variant: only a constraint from a to b is accepted; the branch that
\* reverses a constraint from b to a is missing.
RECURSIVE EdgeToStepOneWay(_, _, _, _)
EdgeToStepOneWay(cs, a, b, k) ==
    IF k > Len(cs) THEN [ok |-> FALSE]
    ELSE LET c == cs[k]
         IN  IF c.from_table = a /\ c.to_table = b
             THEN [ok |-> TRUE, left_table |-> a, right_table |-> b,
                   column_pairs |-> c.column_pairs, constraint_name |-> c.name]
             ELSE EdgeToStepOneWay(cs, a, b, k + 1)

\* The loop of _edge_to_step over cs, from position k: the first constraint
\* that connects a and b in either direction decides.
RECURSIVE EdgeToStepLoop(_, _, _, _)
EdgeToStepLoop(cs, a, b, k) ==
    IF k > Len(cs) THEN [ok |-> FALSE]
    ELSE LET c == cs[k]
         IN  IF c.from_table = a /\ c.to_table = b
             THEN [ok |-> TRUE, left_table |-> a, right_table |-> b,
                   column_pairs |-> c.column_pairs, constraint_name |-> c.name]
             ELSE IF c.from_table = b /\ c.to_table = a
             THEN [ok |-> TRUE, left_table |-> a, right_table |-> b,
                   column_pairs |-> SwapPairs(c.column_pairs),
                   constraint_name |-> c.name]
             ELSE EdgeToStepLoop(cs, a, b, k + 1)

\* _edge_to_step(g, u, v): a JoinStep, or ok = FALSE where it raises.
EdgeToStep(g, u, v) ==
    LET a == g.idx_to_name[u]
        b == g.idx_to_name[v]
        cs == IF {a, b} \in DOMAIN g.edge_constraints
              THEN g.edge_constraints[{a, b}] ELSE <<>>
    IN  EdgeToStepLoop(cs, a, b, 1)

\* zip(path, path[1:])
PathEdges(path) == [i \in 1..(Len(path) - 1) |-> <<path[i], path[i + 1]>>]

\* [_edge_to_step(g, u, v) for (u, v) in edges]
StepsFromEdges(g, edges) ==
    [i \in 1..Len(edges) |-> EdgeToStep(g, edges[i][1], edges[i][2])]

\* adj of _bfs_edges_from: for every u, the v of the pairs (u, v) in the
\* order the set is iterated.
Adjacency(undirected_edges, order) ==
    LET rank == [x \in Range(order) |-> IndexOf(order, x)]
    IN  [u \in {e[1] : e \in undirected_edges} |->
            SortBy({e[2] : e \in {x \in undirected_edges : x[1] = u}}, rank)]

\* The inner `for v in adj.get(u, [])` of _bfs_edges_from, from position k.
RECURSIVE BfsVisit(_, _, _, _)
BfsVisit(u, vs, k, st) ==
    IF k > Len(vs) THEN st
    ELSE IF vs[k] \in st.seen THEN BfsVisit(u, vs, k + 1, st)
    ELSE BfsVisit(u, vs, k + 1,
                  [seen |-> st.seen \cup {vs[k]},
                   q |-> Append(st.q, vs[k]),
                   out |-> Append(st.out, <<u, vs[k]>>)])

\* The `while q` loop of _bfs_edges_from.
RECURSIVE BfsLoop(_, _)
BfsLoop(adj, st) ==
    IF st.q = <<>> THEN st.out
    ELSE LET u == Head(st.q)
             vs == IF u \in DOMAIN adj THEN adj[u] ELSE <<>>
         IN  BfsLoop(adj, BfsVisit(u, vs, 1, [st EXCEPT !.q = Tail(@)]))

\* Variant: the edges are returned as the set holds them, one per pair,
\* without the search from the start.
BfsEdgesFromUnsearched(start, undirected_edges, order) ==
    LET rank == [x \in Range(order) |-> IndexOf(order, x)]
        kept == {e \in undirected_edges : e[1] < e[2]}
    IN  SortBy(kept, [e \in kept |-> rank[e[1]] * (Len(order) + 1) + rank[e[2]]])

\* _bfs_edges_from
BfsEdgesFrom(start, undirected_edges, order) ==
    BfsLoop(Adjacency(undirected_edges, order),
            [seen |-> {start}, q |-> <<start>>, out |-> <<>>])

----------------------------------------------------------------------------
(* Outcomes of a request *)

\* A returned list of JoinSteps.
Returned(op, args, steps) ==
    [op |-> op, args |-> args, status |-> "ok", steps |-> steps,
     error |-> "none", missing |-> <<>>, available |-> <<>>]

\* A raised ValueError: its kind and, for unknown tables, what the message
\* lists.
Raised(op, args, error, missing, available) ==
    [op |-> op, args |-> args, status |-> "error", steps |-> <<>>,
     error |-> error, missing |-> missing, available |-> available]

\* `avail` of _ensure_known: sorted(g.name_to_idx).
Available(g) == SortedNames(DOMAIN g.name_to_idx)

\* The list of steps, or the error of the first _edge_to_step that raises.
StepsOutcome(op, args, made) ==
    IF \A i \in 1..Len(made) : made[i].ok
    THEN Returned(op, args,
                  [i \in 1..Len(made) |->
                      [left_table |-> made[i].left_table,
                       right_table |-> made[i].right_table,
                       column_pairs |-> made[i].column_pairs,
                       constraint_name |-> made[i].constraint_name]])
    ELSE Raised(op, args, "no_oriented_fk", <<>>, <<>>)

----------------------------------------------------------------------------
(* shortest_join_path *)

\* Variant: neither no-path check is made before the path is rebuilt.
ShortestJoinPathOnUnchecked(g, left, right, lowFirst) ==
    LET op == "shortest_join_path"
        args == <<left, right>>
        missing == MissingNames(g, args)
    IN  IF missing /= <<>>
        THEN Raised(op, args, "unknown_tables", missing, Available(g))
        ELSE LET source_index == g.name_to_idx[left]
                 target_index == g.name_to_idx[right]
                 sp == ShortestPath(g.csr, source_index, lowFirst[source_index])
                 path == ReconstructPath(sp.pred, source_index, target_index)
             IN  StepsOutcome(op, args, StepsFromEdges(g, PathEdges(path)))

ShortestJoinPathOn(g, left, right, lowFirst) ==
    LET op == "shortest_join_path"
        args == <<left, right>>
        missing == MissingNames(g, args)
    IN  IF missing /= <<>>
        THEN Raised(op, args, "unknown_tables", missing, Available(g))
        ELSE LET source_index == g.name_to_idx[left]
                 target_index == g.name_to_idx[right]
             IN  IF g.components[source_index] /= g.components[target_index]
                 THEN Raised(op, args, "no_join_path", <<>>, <<>>)
                 ELSE LET sp == ShortestPath(g.csr, source_index,
                                             lowFirst[source_index])
                          path == ReconstructPath(sp.pred, source_index, target_index)
                      IN  IF sp.dist[target_index] = Inf
                          THEN Raised(op, args, "no_join_path_by_distance", <<>>, <<>>)
                          ELSE StepsOutcome(op, args,
                                            StepsFromEdges(g, PathEdges(path)))

----------------------------------------------------------------------------
(* connect_tables *)

\* W of connect_tables: the distance between terminals i and j, read from
\* the row of the lower of the two positions; sp[i] is the shortest_path
\* result for terminal i.
TerminalWeights(sp, term_idx) ==
    LET k == Len(term_idx)
    IN  [i \in 1..k |-> [j \in 1..k |->
            IF i = j THEN Inf
            ELSE IF i < j THEN sp[i].dist[term_idx[j]]
            ELSE sp[j].dist[term_idx[i]]]]

\* Variant: the path edges are added in path direction only.
SteinerEdgesOneWay(sp, term_idx, mst) ==
    UNION {
        LET i == mst[m][1]
            j == mst[m][2]
            path == ReconstructPath(sp[i].pred, term_idx[i], term_idx[j])
        IN  Range(PathEdges(path))
        : m \in 1..Len(mst)}

\* Variant: each path is rebuilt from the far terminal's predecessor row,
\* `_reconstruct_path(preds[j], tj, si)`.
SteinerEdgesFromTarget(sp, term_idx, mst) ==
    UNION {
        LET i == mst[m][1]
            j == mst[m][2]
            path == ReconstructPath(sp[j].pred, term_idx[j], term_idx[i])
            fwd == Range(PathEdges(path))
        IN  fwd \cup {<<e[2], e[1]>> : e \in fwd}
        : m \in 1..Len(mst)}

\* The edges of the shortest paths the MST entries expand to, both ways.
SteinerEdges(sp, term_idx, mst) ==
    UNION {
        LET i == mst[m][1]
            j == mst[m][2]
            path == ReconstructPath(sp[i].pred, term_idx[i], term_idx[j])
            fwd == Range(PathEdges(path))
        IN  fwd \cup {<<e[2], e[1]>> : e \in fwd}
        : m \in 1..Len(mst)}

\* connect_tables from `_ensure_known` on, requested already deduplicated.
ConnectTablesOn(g, args, requested, lowFirst, order) ==
    LET op == "connect_tables"
        missing == MissingNames(g, requested)
    IN  IF missing /= <<>>
        THEN Raised(op, args, "unknown_tables", missing, Available(g))
        ELSE LET term_idx == [i \in 1..Len(requested) |-> g.name_to_idx[requested[i]]]
                 k == Len(term_idx)
             IN  IF Cardinality({g.components[term_idx[i]] : i \in 1..k}) > 1
                 THEN Raised(op, args, "no_join_path", <<>>, <<>>)
                 ELSE LET sp == [i \in 1..k |->
                                    ShortestPath(g.csr, term_idx[i],
                                                 lowFirst[term_idx[i]])]
                          W == TerminalWeights(sp, term_idx)
                      IN  IF \E i \in 1..k : \E j \in (i + 1)..k : W[i][j] = Inf
                          THEN Raised(op, args, "no_join_path_by_distance", <<>>, <<>>)
                          ELSE LET mst == MinimumSpanningTree(W, k)
                                   edges == SteinerEdges(sp, term_idx, mst)
                                   ordered == BfsEdgesFrom(term_idx[1], edges, order)
                               IN  StepsOutcome(op, args, StepsFromEdges(g, ordered))

----------------------------------------------------------------------------
(* The state machine *)

\* Sequences over S of length 0..n.
SeqsUpTo(S, n) == UNION {[1..m -> S] : m \in 0..n}

\* The schemas: every subset of the catalogue of at most MaxFKs records.
Schemas == {c \in SUBSET (1..Len(Catalog)) : Cardinality(c) <= MaxFKs}

\* Whether some table has two neighbours besides itself, so that the order
\* in which a set of edges is iterated can show in a result.
HasBranch(csr) ==
    \E i \in DOMAIN csr : Cardinality(Neighbours(csr, i) \ {i}) > 1

\* No database has changed, no provider object exists, both caches are empty
\* and no thread is in a request.
ServiceInit ==
    /\ db = [d \in Databases |-> 0]
    /\ objects = <<>>
    /\ fk_info_cache = <<>>
    /\ snapshots = <<>>
    /\ clears = 0
    /\ signalled = [d \in Databases |-> FALSE]
    /\ pc = [t \in Threads |-> "idle"]
    /\ frame = [t \in Threads |-> NoFrame]

\* What a provider may hold: the table list with any schema drawn from the
\* catalogue, or the order book.
Providers ==
    {[tables |-> TableList,
      fk_by_table |-> [t \in Range(TableList) |-> ProviderForeignKeys(chosen, t)]] :
        chosen \in Schemas}
    \cup {[tables |-> ShopTables, fk_by_table |-> ShopForeignKeys]}

\* The provider holds some schema; nothing is cached, logged or requested.
\* The library's and the runtime's choices are fixed for the run, and left
\* at their first value where the schema gives them nothing to decide.
Init ==
    /\ \E p \in Providers :
       \E g \in {BuildSnapshot(p.tables, p.fk_by_table)} :
           /\ tables = p.tables
           /\ fk_by_table = p.fk_by_table
           /\ heap_order \in {h \in [1..Len(TableList) -> BOOLEAN] :
                                 \A s \in 1..Len(TableList) : HasTie(g.csr, s) \/ h[s]}
           /\ set_order \in {o \in SetOrders :
                                 HasBranch(g.csr) \/ o = [i \in 1..Len(TableList) |-> i]}
    /\ cache = NoSnapshot
    /\ log = {}
    /\ result = Idle
    /\ previous = Idle
    /\ output = NoOutput
    /\ ServiceInit

\* Variant: a snapshot taken from the cache comes with the constraint lists
\* reversed, as left behind by a use that reordered them in place.
CachedBuildSnapshotReordered ==
    IF cache.built
    THEN [snapshot |-> [cache EXCEPT !.edge_constraints =
                           [k \in DOMAIN @ |-> Reverse(@[k])]],
          log |-> log]
    ELSE [snapshot |-> BuildSnapshot(tables, fk_by_table),
          log |-> log \cup BuildWarnings(tables, fk_by_table)]

\* _build_snapshot(fk_info) behind lru_cache: the cached snapshot, or a
\* build from the provider (whose warnings are logged) that is then cached.
CachedBuildSnapshot ==
    IF cache.built
    THEN [snapshot |-> cache, log |-> log]
    ELSE [snapshot |-> BuildSnapshot(tables, fk_by_table),
          log |-> log \cup BuildWarnings(tables, fk_by_table)]

\* The name pairs and the name lists requests are drawn from,
\* for each table list.
RequestNamesOf ==
    [ts \in {TableList, ShopTables} |->
        IF ts = TableList THEN RequestNames ELSE ShopRequestNames]
PathRequests ==
    [ts \in {TableList, ShopTables} |-> RequestNamesOf[ts] \X RequestNamesOf[ts]]
ConnectRequests ==
    [ts \in {TableList, ShopTables} |-> SeqsUpTo(RequestNamesOf[ts], MaxReq)]

\* shortest_join_path(fk_info, left, right), for (left, right) in reqs.
ShortestJoinPathOf(reqs) ==
    /\ result = Idle
    /\ \E got \in {CachedBuildSnapshot} : \E req \in reqs :
           /\ cache' = got.snapshot
           /\ log' = got.log
           /\ result' = ShortestJoinPathOn(got.snapshot, req[1], req[2], heap_order)
    /\ UNCHANGED <<tables, fk_by_table, heap_order, set_order, previous, output, service_vars>>

\* shortest_join_path, for any left and right.
ShortestJoinPath == ShortestJoinPathOf(PathRequests[tables])

\* connect_tables(fk_info, tables), for a list of names in reqs: the length
\* check precedes the snapshot, which a too short list neither builds nor
\* reads.
ConnectTablesOf(reqs) ==
    /\ result = Idle
    /\ \E got \in {CachedBuildSnapshot} : \E args \in reqs :
           \E requested \in {DedupKeepFirst(args)} :
               IF Len(requested) < 2
               THEN /\ result' = Raised("connect_tables", args, "too_few_tables",
                                        <<>>, <<>>)
                    /\ UNCHANGED <<cache, log>>
               ELSE /\ cache' = got.snapshot
                    /\ log' = got.log
                    /\ result' = ConnectTablesOn(got.snapshot, args, requested,
                                                 heap_order, set_order)
    /\ UNCHANGED <<tables, fk_by_table, heap_order, set_order, previous, output, service_vars>>

\* connect_tables, for any list of names.
ConnectTables == ConnectTablesOf(ConnectRequests[tables])

\* clear_cache(): _build_snapshot.cache_clear()
ClearCache ==
    /\ result = Idle
    /\ cache' = NoSnapshot
    /\ UNCHANGED <<tables, fk_by_table, heap_order, set_order, log, result, previous,
                   output, service_vars>>

\* The caller takes the outcome; the next request may start.
Return ==
    /\ result /= Idle
    /\ result' = Idle
    /\ UNCHANGED <<tables, fk_by_table, heap_order, set_order, cache, log, previous,
                   output, service_vars>>

Next ==
    \/ ShortestJoinPath
    \/ ConnectTables
    \/ ClearCache
    \/ Return

Spec == Init /\ [][Next]_vars

----------------------------------------------------------------------------
(* The resolver over the help desk *)

\* The provider holds the help desk. The library's tie-breaking is open for
\* the tables a request may start a search from, the iteration order of a
\* set for the run.
InitDesk ==
    /\ tables = DeskTables
    /\ fk_by_table = DeskForeignKeys
    /\ heap_order \in {h \in [1..Len(DeskTables) -> BOOLEAN] :
                          \A s \in 1..Len(DeskTables) :
                              DeskTables[s] \in DeskRequestNames \/ h[s]}
    /\ set_order \in {[i \in 1..Len(DeskTables) |-> i],
                      [i \in 1..Len(DeskTables) |-> Len(DeskTables) + 1 - i]}
    /\ cache = NoSnapshot
    /\ log = {}
    /\ result = Idle
    /\ previous = Idle
    /\ output = NoOutput
    /\ ServiceInit

\* shortest_join_path between any two of the names.
DeskShortestJoinPath == ShortestJoinPathOf(DeskRequestNames \X DeskRequestNames)

\* connect_tables for any list of the names.
DeskConnectTables == ConnectTablesOf(SeqsUpTo(DeskRequestNames, MaxReq))

NextDesk ==
    \/ DeskShortestJoinPath
    \/ DeskConnectTables
    \/ ClearCache
    \/ Return

SpecDesk == InitDesk /\ [][NextDesk]_vars

----------------------------------------------------------------------------
(* A caller that repeats a request *)

\* The arguments the caller may pass to operation op: any of reqs at first,
\* and once an outcome is kept, those of the kept call, if it was of op.
Repeating(op, reqs) ==
    IF previous = Idle THEN reqs
    ELSE IF previous.op = op THEN {previous.args}
    ELSE {}

\* shortest_join_path, called again with the arguments of the kept outcome.
RepeatShortestJoinPath ==
    ShortestJoinPathOf(Repeating("shortest_join_path", PathRequests[tables]))

\* connect_tables, called again with the list of the kept outcome.
RepeatConnectTables ==
    ConnectTablesOf(Repeating("connect_tables", ConnectRequests[tables]))

\* The caller keeps the outcome of the first call and takes each later one.
ReturnKept ==
    /\ result /= Idle
    /\ result' = Idle
    /\ previous' = IF previous = Idle THEN result ELSE previous
    /\ UNCHANGED <<tables, fk_by_table, heap_order, set_order, cache, log, output,
                   service_vars>>

NextRepeat ==
    \/ RepeatShortestJoinPath
    \/ RepeatConnectTables
    \/ ClearCache
    \/ ReturnKept

SpecRepeat == Init /\ [][NextRepeat]_vars

----------------------------------------------------------------------------
(* The join_path tool of the MCP server, which renders what the resolver   *)
(* returns. It names the database; the resolver it calls answers from that *)
(* database's provider.                                                    *)

\* sep.join(xs)
RECURSIVE JoinStrings(_, _)
JoinStrings(xs, sep) ==
    IF xs = <<>> THEN ""
    ELSE IF Len(xs) = 1 THEN xs[1]
    ELSE xs[1] \o sep \o JoinStrings(Tail(xs), sep)

\* f'"{name}"'
Quoted(name) == "\"" \o name \o "\""

\* str(e) for the ValueError the resolver raised.
ErrorText(r) ==
    IF r.error = "unknown_tables"
    THEN "Unknown tables: " \o JoinStrings(r.missing, ", ")
             \o ". Available: " \o JoinStrings(r.available, ", ") \o "."
    ELSE IF r.error = "too_few_tables"
    THEN "Provide at least two tables."
    ELSE IF r.error \in {"no_join_path", "no_join_path_by_distance"}
    THEN IF r.op = "shortest_join_path"
         THEN "No join path between '" \o r.args[1] \o "' and '" \o r.args[2] \o "'."
         ELSE "No join path connects: "
                  \o JoinStrings(DedupKeepFirst(r.args), ", ") \o "."
    ELSE "No oriented FK fits edge."

\* on_conditions of one step: " AND ".join of the quoted equalities.
OnConditions(step) ==
    JoinStrings(
        [i \in 1..Len(step.column_pairs) |->
            Quoted(step.left_table) \o "." \o Quoted(step.column_pairs[i][1])
                \o " = "
                \o Quoted(step.right_table) \o "." \o Quoted(step.column_pairs[i][2])],
        " AND ")

\* join_parts: one 'JOIN "right" ON ...' per step.
JoinParts(steps) ==
    [i \in 1..Len(steps) |->
        "JOIN " \o Quoted(steps[i].right_table) \o " ON " \o OnConditions(steps[i])]

\* What join_path returns for the list ts once the resolver has answered r.
Rendered(ts, r) ==
    IF r.status = "error" THEN ErrorText(r)
    ELSE IF r.steps = <<>>
    THEN "No join path found for tables: " \o JoinStrings(ts, ", ")
    ELSE "FROM " \o Quoted(ts[1]) \o "\n" \o JoinStrings(JoinParts(r.steps), "\n")

\* The resolver call join_path makes for a list of two or more names:
\* shortest_join_path for two, connect_tables otherwise.
ResolverCall(g, ts) ==
    IF Len(ts) = 2
    THEN ShortestJoinPathOn(g, ts[1], ts[2], heap_order)
    ELSE IF Len(DedupKeepFirst(ts)) < 2
    THEN Raised("connect_tables", ts, "too_few_tables", <<>>, <<>>)
    ELSE ConnectTablesOn(g, ts, DedupKeepFirst(ts), heap_order, set_order)

\* join_path(tables, database)
JoinPath ==
    /\ result = Idle
    /\ ~output.returned
    /\ \E got \in {CachedBuildSnapshot} : \E ts \in ConnectRequests[tables] :
           IF Len(ts) < 2
           THEN /\ output' = [returned |-> TRUE, tables |-> ts,
                              text |-> "At least two tables are required to form a join path."]
                /\ UNCHANGED <<cache, log, result>>
           ELSE \E r \in {ResolverCall(got.snapshot, ts)} :
                    /\ result' = r
                    /\ IF r.error = "too_few_tables"
                       THEN UNCHANGED <<cache, log>>
                       ELSE cache' = got.snapshot /\ log' = got.log
                    /\ output' = [returned |-> TRUE, tables |-> ts,
                                  text |-> Rendered(ts, r)]
    /\ UNCHANGED <<tables, fk_by_table, heap_order, set_order, previous, service_vars>>

\* The agent takes the tool's answer.
ReturnOutput ==
    /\ output.returned
    /\ output' = NoOutput
    /\ result' = Idle
    /\ UNCHANGED <<tables, fk_by_table, heap_order, set_order, cache, log, previous,
                   service_vars>>

\* clear_cache(), between two uses of the tool.
ClearCacheIdle ==
    /\ ~output.returned
    /\ ClearCache
    /\ output' = output

NextTool ==
    \/ JoinPath
    \/ ClearCacheIdle
    \/ ReturnOutput

SpecTool == Init /\ [][NextTool]_vars

----------------------------------------------------------------------------
(* The service: threads that call the resolver with the provider objects   *)
(* of app/repositories/fk_metadata.py, the two lru_caches they share, and  *)
(* a caller that changes a database and invalidates.                       *)

\* What the resolver's own variables are while the service runs.
resolver_vars ==
    <<tables, fk_by_table, heap_order, set_order, cache, result, previous, output>>

\* _load_metadata(database), for a database that has changed v times.
Metadata(v) ==
    LET added == SubSeq(AddedForeignKeys, 1, Min({v, Len(AddedForeignKeys)}))
    IN  [tables |-> ShopTables,
         fk_by_table |-> [t \in Range(ShopTables) |->
             ShopForeignKeys[t] \o SelectSeq(added, LAMBDA r : r.owner = t)]]

\* An lru_cache is the sequence of its entries, least recently used first;
\* an entry's id is what the hash and equality of its key compare.
\* The position of the entry for id, or 0.
LruIndex(c, id) ==
    IF \E i \in 1..Len(c) : c[i].id = id
    THEN Min({i \in 1..Len(c) : c[i].id = id})
    ELSE 0

\* A hit makes entry i the most recently used.
LruTouch(c, i) == SubSeq(c, 1, i - 1) \o SubSeq(c, i + 1, Len(c)) \o <<c[i]>>

\* After the wrapped function has returned: the result is stored unless the
\* key has been stored meanwhile; a full cache drops its oldest entry.
LruStore(c, e) ==
    IF LruIndex(c, e.id) /= 0 THEN c
    ELSE IF Len(c) >= MaxSize THEN Append(Tail(c), e)
    ELSE Append(c, e)

\* Variant: the entries stay.
CacheClearKept(c) == c

\* cache_clear()
CacheClear(c) == <<>>

\* Variant: provider objects are keyed by identity.
KeyIdByObject(objs, o) == o

\* SqlForeignKeyInfo.__hash__ / __eq__: object o of objs is keyed by its
\* database.
KeyId(objs, o) == objs[o].database

\* get_fk_info(d): the cached object, or a new one that is then cached; with
\* the objects and the cache as the call leaves them.
GetFkInfo(d) ==
    LET i == LruIndex(fk_info_cache, d)
        made == Len(objects) + 1
    IN  IF i /= 0
        THEN [objects |-> objects,
              cache |-> LruTouch(fk_info_cache, i),
              fk_info |-> fk_info_cache[i].value]
        ELSE [objects |-> Append(objects, [database |-> d, loaded |-> NotLoaded]),
              cache |-> LruStore(fk_info_cache, [id |-> d, value |-> made]),
              fk_info |-> made]

\* get_fk_info(d) can be called: it hits, or one more object may be made.
CanGetFkInfo(d) == LruIndex(fk_info_cache, d) /= 0 \/ Len(objects) < MaxObjects

\* The resolver on snapshot g, from `_ensure_known` on.
ResolveOn(g, op, args) ==
    IF op = "shortest_join_path"
    THEN ShortestJoinPathOn(g, args[1], args[2], heap_order)
    ELSE ConnectTablesOn(g, args, DedupKeepFirst(args), heap_order, set_order)

\* Thread t calls shortest_join_path or connect_tables with
\* get_fk_info(d), up to the lookup of `_build_snapshot(fk_info)` in its
\* cache: a hit hands the cached snapshot to the thread, a miss sends it
\* into the function body. A connect_tables with fewer than two distinct
\* names raises before the lookup.
Call(t) ==
    /\ pc[t] = "idle"
    /\ \E d \in Databases : \E req \in ServiceRequests :
           /\ CanGetFkInfo(d)
           /\ \E got \in {GetFkInfo(d)} :
                  LET too_few == req.op = "connect_tables"
                                     /\ Len(DedupKeepFirst(req.args)) < 2
                      i == LruIndex(snapshots, KeyId(got.objects, got.fk_info))
                      entered == [op |-> req.op, args |-> req.args, database |-> d,
                                  fk_info |-> got.fk_info,
                                  snapshot |-> NoSnapshot,
                                  result |-> Idle,
                                  called |-> clears,
                                  expect |-> IF signalled[d] THEN db[d] ELSE 0]
                  IN  /\ objects' = got.objects
                      /\ fk_info_cache' = got.cache
                      /\ IF too_few
                         THEN /\ pc' = [pc EXCEPT ![t] = "done"]
                              /\ frame' = [frame EXCEPT ![t] =
                                    [entered EXCEPT !.result =
                                        Raised(req.op, req.args, "too_few_tables",
                                               <<>>, <<>>)]]
                              /\ snapshots' = snapshots
                         ELSE IF i /= 0
                         THEN /\ pc' = [pc EXCEPT ![t] = "resolve"]
                              /\ frame' = [frame EXCEPT ![t] =
                                    [entered EXCEPT !.snapshot = snapshots[i].value]]
                              /\ snapshots' = LruTouch(snapshots, i)
                         ELSE /\ pc' = [pc EXCEPT ![t] = "build"]
                              /\ frame' = [frame EXCEPT ![t] = entered]
                              /\ snapshots' = snapshots
    /\ UNCHANGED <<resolver_vars, log, db, clears, signalled>>

\* The body of _build_snapshot and the wrapper's store: the provider loads
\* its metadata if it has none (_ensure_metadata_loaded), the snapshot is
\* built from what the provider holds and the thread goes on with it; it is
\* cached unless the key has been stored meanwhile. The snapshot carries
\* what it was built from and when: the provider object, the number of
\* changes the metadata had seen, and how many times clear_cache() had been
\* called when the thread called `_build_snapshot` and when the build ended.
Build(t) ==
    /\ pc[t] = "build"
    /\ LET o == frame[t].fk_info
           loaded == IF objects[o].loaded = NotLoaded
                     THEN db[objects[o].database]
                     ELSE objects[o].loaded
           meta == Metadata(loaded)
           value == [built |-> TRUE,
                     g |-> BuildSnapshot(meta.tables, meta.fk_by_table),
                     fk_info |-> o,
                     version |-> loaded,
                     began |-> frame[t].called,
                     ended |-> clears]
       IN  /\ objects' = [objects EXCEPT ![o].loaded = loaded]
           /\ log' = log \cup BuildWarnings(meta.tables, meta.fk_by_table)
           /\ snapshots' = LruStore(snapshots, [id |-> KeyId(objects, o), key |-> o, value |-> value])
           /\ frame' = [frame EXCEPT ![t].snapshot = value]
           /\ pc' = [pc EXCEPT ![t] = "resolve"]
    /\ UNCHANGED <<resolver_vars, db, fk_info_cache, clears, signalled>>

\* The rest of the request, on the snapshot the thread holds.
Resolve(t) ==
    /\ pc[t] = "resolve"
    /\ frame' = [frame EXCEPT ![t].result =
                    ResolveOn(frame[t].snapshot.g, frame[t].op, frame[t].args)]
    /\ pc' = [pc EXCEPT ![t] = "done"]
    /\ UNCHANGED <<resolver_vars, log, db, objects, fk_info_cache, snapshots, clears,
                   signalled>>

\* The caller of thread t takes the outcome.
Finish(t) ==
    /\ pc[t] = "done"
    /\ pc' = [pc EXCEPT ![t] = "idle"]
    /\ frame' = [frame EXCEPT ![t] = NoFrame]
    /\ UNCHANGED <<resolver_vars, log, db, objects, fk_info_cache, snapshots, clears,
                   signalled>>

\* clear_cache(), while threads are in their requests.
ClearSnapshots ==
    /\ clears < MaxClears
    /\ clears' = clears + 1
    /\ snapshots' = CacheClear(snapshots)
    /\ UNCHANGED <<resolver_vars, log, db, objects, fk_info_cache, signalled, pc, frame>>

\* clear_cached_fk_info(): get_fk_info.cache_clear()
ClearCachedFkInfoAll ==
    /\ fk_info_cache' = CacheClear(fk_info_cache)
    /\ signalled' = [d \in Databases |-> db[d] > 0]
    /\ UNCHANGED <<resolver_vars, log, db, objects, snapshots, clears, pc, frame>>

\* clear_cached_fk_info(d): get_fk_info(d).refresh()
ClearCachedFkInfoOf(d) ==
    /\ CanGetFkInfo(d)
    /\ \E got \in {GetFkInfo(d)} :
           /\ objects' = [got.objects EXCEPT ![got.fk_info].loaded = db[d]]
           /\ fk_info_cache' = got.cache
    /\ signalled' = [signalled EXCEPT ![d] = db[d] > 0]
    /\ UNCHANGED <<resolver_vars, log, db, snapshots, clears, pc, frame>>

\* The foreign-key metadata of database d changes.
ChangeMetadata(d) ==
    /\ db[d] < MaxChanges
    /\ db' = [db EXCEPT ![d] = @ + 1]
    /\ signalled' = [signalled EXCEPT ![d] = FALSE]
    /\ UNCHANGED <<resolver_vars, log, objects, fk_info_cache, snapshots, clears, pc, frame>>

\* The resolver's own variables rest; the service starts empty.
InitService ==
    /\ tables = ShopTables
    /\ fk_by_table = ShopForeignKeys
    /\ heap_order = [i \in 1..Len(ShopTables) |-> TRUE]
    /\ set_order = [i \in 1..Len(ShopTables) |-> i]
    /\ cache = NoSnapshot
    /\ log = {}
    /\ result = Idle
    /\ previous = Idle
    /\ output = NoOutput
    /\ ServiceInit

NextService ==
    \/ \E t \in Threads : Call(t)
    \/ \E t \in Threads : Build(t)
    \/ \E t \in Threads : Resolve(t)
    \/ \E t \in Threads : Finish(t)
    \/ ClearSnapshots
    \/ ClearCachedFkInfoAll
    \/ \E d \in Databases : ClearCachedFkInfoOf(d)
    \/ \E d \in Databases : ChangeMetadata(d)

SpecService == InitService /\ [][NextService]_vars

----------------------------------------------------------------------------
(* One caller and more databases than the snapshot cache has room for *)

\* One database more than lru_cache(maxsize=16) holds.
ManyDatabases ==
    <<"db01", "db02", "db03", "db04", "db05", "db06", "db07", "db08", "db09",
      "db10", "db11", "db12", "db13", "db14", "db15", "db16", "db17">>

\* The caller has made one SqlForeignKeyInfo(database) per database; none
\* has loaded its metadata and the snapshot cache is empty.
InitMany ==
    /\ tables = ShopTables
    /\ fk_by_table = ShopForeignKeys
    /\ heap_order = [i \in 1..Len(ShopTables) |-> TRUE]
    /\ set_order = [i \in 1..Len(ShopTables) |-> i]
    /\ cache = NoSnapshot
    /\ log = {}
    /\ result = Idle
    /\ previous = Idle
    /\ output = NoOutput
    /\ db = [d \in Databases |-> 0]
    /\ objects = [i \in 1..Len(ManyDatabases) |->
                     [database |-> ManyDatabases[i], loaded |-> NotLoaded]]
    /\ fk_info_cache = <<>>
    /\ snapshots = <<>>
    /\ clears = 0
    /\ signalled = [d \in Databases |-> FALSE]
    /\ pc = [t \in Threads |-> "idle"]
    /\ frame = [t \in Threads |-> NoFrame]

\* The caller works through its databases in order and comes back to the
\* first two: the provider objects it may pass next.
NextProviders ==
    {o \in DOMAIN objects :
        \/ o <= 2
        \/ /\ objects[o].loaded = NotLoaded
           /\ \A p \in 1..(o - 1) : objects[p].loaded /= NotLoaded}

\* shortest_join_path(fk_info, "orders", "products") with provider object o,
\* as a whole: the lookup of `_build_snapshot(fk_info)` in its cache, on a
\* miss the body (the provider loads its metadata if it has none) and the
\* store, which drops the least recently used entry of a full cache, then
\* the search on the snapshot.
RequestOn(o) ==
    /\ result = Idle
    /\ LET id == KeyId(objects, o)
           i == LruIndex(snapshots, id)
           loaded == IF objects[o].loaded = NotLoaded THEN 0 ELSE objects[o].loaded
           meta == Metadata(loaded)
           value == [built |-> TRUE,
                     g |-> BuildSnapshot(meta.tables, meta.fk_by_table),
                     fk_info |-> o,
                     version |-> loaded,
                     began |-> clears,
                     ended |-> clears]
       IN  IF i /= 0
           THEN /\ snapshots' = LruTouch(snapshots, i)
                /\ result' = ShortestJoinPathOn(snapshots[i].value.g, "orders",
                                                "products", heap_order)
                /\ UNCHANGED <<objects, log>>
           ELSE /\ objects' = [objects EXCEPT ![o].loaded = loaded]
                /\ log' = log \cup BuildWarnings(meta.tables, meta.fk_by_table)
                /\ snapshots' = LruStore(snapshots,
                                         [id |-> id, key |-> o, value |-> value])
                /\ result' = ShortestJoinPathOn(value.g, "orders", "products",
                                                heap_order)
    /\ UNCHANGED <<tables, fk_by_table, heap_order, set_order, cache, previous, output,
                   db, fk_info_cache, clears, signalled, pc, frame>>

\* clear_cache(), between two requests.
ClearCacheMany ==
    /\ result = Idle
    /\ ClearSnapshots

NextMany ==
    \/ \E o \in NextProviders : RequestOn(o)
    \/ ClearCacheMany
    \/ Return

SpecMany == InitMany /\ [][NextMany]_vars

----------------------------------------------------------------------------
(* Threads that build a snapshot while others call refresh() on the same   *)
(* provider object, statement by statement.                                *)

\* _load_metadata(database), for a database that gains a table with its
\* foreign key by its first change.
Reloaded(v) ==
    IF v = 0
    THEN [tables |-> ShopTables, fk_by_table |-> ShopForeignKeys]
    ELSE [tables |-> Append(ShopTables, "returns"),
          fk_by_table |->
              [t \in Range(ShopTables) \cup {"returns"} |->
                  IF t = "returns"
                  THEN <<[owner |-> "returns", name |-> "fk_returns_order",
                          referred_table |-> "orders",
                          constrained_columns |-> <<"order_id">>,
                          referred_columns |-> <<"id">>]>>
                  ELSE ShopForeignKeys[t]]]

\* The one provider object the threads share, as get_fk_info hands it out.
Shared == Len(objects)

\* The object's `_tables` and `_fk_by_table` are kept as the number of
\* changes the database had seen when the value was loaded, NotLoaded for
\* None.
\* `self._tables is None or self._fk_by_table is None`
Unloaded(o) == objects[o].tables = NotLoaded \/ objects[o].fk_by_table = NotLoaded

\* A thread outside any call.
AtRest == [op |-> "none", tables |-> <<>>, fks |-> <<>>, loaded |-> 0, back |-> "idle"]

\* What the calls of get_foreign_keys returned, by table.
FksRead(f) ==
    [t \in Range(f.tables) |->
        LET k == Min({i \in 1..Len(f.tables) : f.tables[i] = t})
        IN  IF k <= Len(f.fks) THEN f.fks[k] ELSE <<>>]

\* Thread t calls `_build_snapshot(fk_info)`: a hit returns the cached
\* snapshot, a miss enters the body.
BuildCall(t) ==
    /\ pc[t] = "idle"
    /\ LET i == LruIndex(snapshots, KeyId(objects, Shared))
       IN  IF i /= 0
           THEN /\ snapshots' = LruTouch(snapshots, i)
                /\ pc' = [pc EXCEPT ![t] = "done"]
           ELSE /\ snapshots' = snapshots
                /\ pc' = [pc EXCEPT ![t] = "get_table_names"]
    /\ frame' = [frame EXCEPT ![t] = [AtRest EXCEPT !.op = "_build_snapshot"]]
    /\ UNCHANGED <<resolver_vars, log, db, objects, fk_info_cache, clears, signalled>>

\* `tables = list(fk_info.get_table_names())`: the provider refreshes first
\* if it holds nothing, else the thread copies the list the object holds.
GetTableNames(t) ==
    /\ pc[t] = "get_table_names"
    /\ IF Unloaded(Shared)
       THEN /\ pc' = [pc EXCEPT ![t] = "load_metadata"]
            /\ frame' = [frame EXCEPT ![t].back = "get_table_names"]
       ELSE /\ pc' = [pc EXCEPT ![t] = "get_foreign_keys"]
            /\ frame' = [frame EXCEPT ![t].tables =
                            Reloaded(objects[Shared].tables).tables]
    /\ UNCHANGED <<resolver_vars, log, db, objects, fk_info_cache, snapshots, clears,
                   signalled>>

\* One turn of `for t in tables: fk_info.get_foreign_keys(t)`: the provider
\* refreshes first if it holds nothing, else the thread copies the records
\* the object's map holds for the table, none if the map has no such key.
\* After the last table the loop is left.
GetForeignKeys(t) ==
    /\ pc[t] = "get_foreign_keys"
    /\ LET f == frame[t]
           name == f.tables[Len(f.fks) + 1]
           held == Reloaded(objects[Shared].fk_by_table).fk_by_table
       IN  IF Len(f.fks) = Len(f.tables)
           THEN /\ pc' = [pc EXCEPT ![t] = "store"]
                /\ frame' = frame
           ELSE IF Unloaded(Shared)
           THEN /\ pc' = [pc EXCEPT ![t] = "load_metadata"]
                /\ frame' = [frame EXCEPT ![t].back = "get_foreign_keys"]
           ELSE /\ pc' = pc
                /\ frame' = [frame EXCEPT ![t].fks =
                                Append(@, IF name \in DOMAIN held THEN held[name]
                                          ELSE <<>>)]
    /\ UNCHANGED <<resolver_vars, log, db, objects, fk_info_cache, snapshots, clears,
                   signalled>>

\* The rest of the body and the wrapper's store: the snapshot of what the
\* thread has read is cached unless the key has been stored meanwhile.
StoreSnapshot(t) ==
    /\ pc[t] = "store"
    /\ LET f == frame[t]
           value == [built |-> TRUE, g |-> BuildSnapshot(f.tables, FksRead(f)),
                     fk_info |-> Shared]
       IN  /\ snapshots' = LruStore(snapshots, [id |-> KeyId(objects, Shared),
                                                key |-> Shared, value |-> value])
           /\ log' = log \cup BuildWarnings(f.tables, FksRead(f))
    /\ pc' = [pc EXCEPT ![t] = "done"]
    /\ UNCHANGED <<resolver_vars, db, objects, fk_info_cache, clears, signalled, frame>>

\* The thread's caller goes on.
BuildReturn(t) ==
    /\ pc[t] = "done"
    /\ pc' = [pc EXCEPT ![t] = "idle"]
    /\ frame' = [frame EXCEPT ![t] = AtRest]
    /\ UNCHANGED <<resolver_vars, log, db, objects, fk_info_cache, snapshots, clears,
                   signalled>>

\* Thread t calls fk_info.refresh().
RefreshCall(t) ==
    /\ pc[t] = "idle"
    /\ pc' = [pc EXCEPT ![t] = "load_metadata"]
    /\ frame' = [frame EXCEPT ![t] = [AtRest EXCEPT !.op = "refresh"]]
    /\ UNCHANGED <<resolver_vars, log, db, objects, fk_info_cache, snapshots, clears,
                   signalled>>

\* refresh: `tables, fk_by_table = _load_metadata(self.database)`
LoadMetadata(t) ==
    /\ pc[t] = "load_metadata"
    /\ frame' = [frame EXCEPT ![t].loaded = db[objects[Shared].database]]
    /\ pc' = [pc EXCEPT ![t] = "assign_tables"]
    /\ UNCHANGED <<resolver_vars, log, db, objects, fk_info_cache, snapshots, clears,
                   signalled>>

\* refresh: `self._tables = tables`
AssignTables(t) ==
    /\ pc[t] = "assign_tables"
    /\ objects' = [objects EXCEPT ![Shared].tables = frame[t].loaded]
    /\ pc' = [pc EXCEPT ![t] = "assign_fk_by_table"]
    /\ UNCHANGED <<resolver_vars, log, db, fk_info_cache, snapshots, clears, signalled,
                   frame>>

\* refresh: `self._fk_by_table = fk_by_table`, and the return to the caller.
AssignFkByTable(t) ==
    /\ pc[t] = "assign_fk_by_table"
    /\ objects' = [objects EXCEPT ![Shared].fk_by_table = frame[t].loaded]
    /\ pc' = [pc EXCEPT ![t] = frame[t].back]
    /\ frame' = [frame EXCEPT ![t] = IF @.back = "idle" THEN AtRest ELSE @]
    /\ UNCHANGED <<resolver_vars, log, db, fk_info_cache, snapshots, clears, signalled>>

\* The provider object exists and holds nothing; the database has not
\* changed, the snapshot cache is empty and the threads rest.
InitRefresh ==
    /\ tables = ShopTables
    /\ fk_by_table = ShopForeignKeys
    /\ heap_order = [i \in 1..Len(ShopTables) |-> TRUE]
    /\ set_order = [i \in 1..Len(ShopTables) |-> i]
    /\ cache = NoSnapshot
    /\ log = {}
    /\ result = Idle
    /\ previous = Idle
    /\ output = NoOutput
    /\ db = [d \in Databases |-> 0]
    /\ objects \in {<<[database |-> d, tables |-> NotLoaded, fk_by_table |-> NotLoaded]>> :
                       d \in Databases}
    /\ fk_info_cache = <<>>
    /\ snapshots = <<>>
    /\ clears = 0
    /\ signalled = [d \in Databases |-> FALSE]
    /\ pc = [t \in Threads |-> "idle"]
    /\ frame = [t \in Threads |-> AtRest]

NextRefresh ==
    \/ \E t \in Threads : BuildCall(t)
    \/ \E t \in Threads : GetTableNames(t)
    \/ \E t \in Threads : GetForeignKeys(t)
    \/ \E t \in Threads : StoreSnapshot(t)
    \/ \E t \in Threads : BuildReturn(t)
    \/ \E t \in Threads : RefreshCall(t)
    \/ \E t \in Threads : LoadMetadata(t)
    \/ \E t \in Threads : AssignTables(t)
    \/ \E t \in Threads : AssignFkByTable(t)
    \/ \E d \in Databases : ChangeMetadata(d)
    \/ ClearSnapshots

SpecRefresh == InitRefresh /\ [][NextRefresh]_vars

----------------------------------------------------------------------------
(* What the claims are stated against: the foreign-key graph as the        *)
(* provider's metadata defines it, computed without the snapshot.          *)

\* A record that declares a foreign key: a referenced table and at least one
\* constrained column.
Declares(fk) == fk.referred_table /= None /\ fk.constrained_columns /= <<>>

KnownTables == Range(tables)

\* Table a declares a foreign key to table b.
Refers(a, b) ==
    /\ a \in KnownTables
    /\ b \in KnownTables
    /\ \E i \in 1..Len(fk_by_table[a]) :
           Declares(fk_by_table[a][i]) /\ fk_by_table[a][i].referred_table = b

\* a and b are joined by a foreign key in either direction.
Linked(a, b) == Refers(a, b) \/ Refers(b, a)

\* The tables at most n edges from the set S.
RECURSIVE Within(_, _)
Within(S, n) ==
    IF n = 0 THEN S
    ELSE LET near == Within(S, n - 1)
         IN  near \cup {b \in KnownTables : \E a \in near : Linked(a, b)}

\* a and b lie in one connected component.
Connected(a, b) == b \in Within({a}, Cardinality(KnownTables))

\* The least number of edges of a path between connected tables a and b.
Distance(a, b) == Min({n \in 0..Cardinality(KnownTables) : b \in Within({a}, n)})

\* The unordered table pairs a list of steps joins.
JoinedPairs(steps) == {{steps[i].left_table, steps[i].right_table} : i \in 1..Len(steps)}

PathCall == result.op = "shortest_join_path"
ConnectCall == result.op = "connect_tables"

\* The distinct names of the request, in order of first occurrence.
Requested == DedupKeepFirst(result.args)

\* The request names only tables of the schema.
AllKnown == \A i \in 1..Len(result.args) : result.args[i] \in KnownTables

\* The requested tables share one connected component.
AllConnected ==
    \A i \in 1..Len(result.args) : Connected(result.args[1], result.args[i])

NoJoinPathRaised ==
    /\ result.status = "error"
    /\ result.error \in {"no_join_path", "no_join_path_by_distance"}
    /\ result.steps = <<>>

----------------------------------------------------------------------------
(* C1 *)

\* The steps form a chain from table a to table b.
IsChain(steps, a, b) ==
    /\ steps /= <<>>
    /\ steps[1].left_table = a
    /\ steps[Len(steps)].right_table = b
    /\ \A i \in 1..(Len(steps) - 1) : steps[i].right_table = steps[i + 1].left_table

\* C1: for two distinct known tables of one connected component,
\* shortest_join_path returns a chain of steps from left to right whose
\* length is the least number of edges of any path between them in the
\* undirected foreign-key graph.
C1_ShortestPathIsMinimalChain ==
    (/\ PathCall
     /\ AllKnown
     /\ result.args[1] /= result.args[2]
     /\ AllConnected)
    => /\ result.status = "ok"
       /\ IsChain(result.steps, result.args[1], result.args[2])
       /\ Len(result.steps) = Distance(result.args[1], result.args[2])

\* A shortest path of two steps was returned although a direct foreign key
\* is absent and two different two-step routes exist.
C1_Witness ==
    /\ PathCall
    /\ result.status = "ok"
    /\ Len(result.steps) = 2
    /\ Cardinality({m \in KnownTables :
                       Linked(result.args[1], m) /\ Linked(m, result.args[2])}) = 2

----------------------------------------------------------------------------
(* C2 *)

\* The right tables of the steps before position i, and the first requested
\* table: the tables already joined when step i is emitted.
JoinedBefore(steps, first, i) == {first} \cup {steps[j].right_table : j \in 1..(i - 1)}

\* C2: for a list with at least two distinct known tables of one component,
\* connect_tables returns steps in which every requested table occurs, every
\* left table is already joined and no right table is: a tree rooted at the
\* first requested table.
C2_ConnectIsRootedTree ==
    (/\ ConnectCall
     /\ Len(Requested) >= 2
     /\ AllKnown
     /\ AllConnected)
    => /\ result.status = "ok"
       /\ \A t \in Range(Requested) :
              \E i \in 1..Len(result.steps) :
                  t \in {result.steps[i].left_table, result.steps[i].right_table}
       /\ \A i \in 1..Len(result.steps) :
              /\ result.steps[i].left_table \in JoinedBefore(result.steps, Requested[1], i)
              /\ result.steps[i].right_table \notin JoinedBefore(result.steps, Requested[1], i)

\* Three tables were connected by three steps: the tree passes through a
\* table that was not requested.
C2_Witness ==
    /\ ConnectCall
    /\ result.status = "ok"
    /\ Len(Requested) = 3
    /\ Len(result.steps) = 3

----------------------------------------------------------------------------
(* C3 *)

\* Step st is record fk of table st.left_table, which refers to
\* st.right_table: pair i is (constrained column i, referred column i).
FromLeftRecord(st, fk) ==
    /\ Declares(fk)
    /\ fk.referred_table = st.right_table
    /\ st.constraint_name = fk.name
    /\ st.column_pairs = Zip(fk.constrained_columns, fk.referred_columns)

\* Step st is record fk of table st.right_table, which refers to
\* st.left_table: pair i is (referred column i, constrained column i).
FromRightRecord(st, fk) ==
    /\ Declares(fk)
    /\ fk.referred_table = st.left_table
    /\ st.constraint_name = fk.name
    /\ st.column_pairs = Zip(fk.referred_columns, fk.constrained_columns)

\* C3: every returned step comes from one foreign key declared between its
\* two tables, and each of its pairs holds the left table's column first and
\* the right table's column second, in the foreign key's column order.
C3_StepsAreOrientedConstraints ==
    ((PathCall \/ ConnectCall) /\ result.status = "ok")
    => \A i \in 1..Len(result.steps) :
           LET st == result.steps[i]
               own == fk_by_table[st.left_table]
               other == fk_by_table[st.right_table]
           IN  \/ \E k \in 1..Len(own) : FromLeftRecord(st, own[k])
               \/ \E k \in 1..Len(other) : FromRightRecord(st, other[k])

\* A returned step uses a two-column foreign key against its direction: the
\* right table declares it.
C3_Witness ==
    /\ PathCall \/ ConnectCall
    /\ result.status = "ok"
    /\ \E i \in 1..Len(result.steps) :
           /\ Len(result.steps[i].column_pairs) = 2
           /\ ~Refers(result.steps[i].left_table, result.steps[i].right_table)

----------------------------------------------------------------------------
(* C4 *)

\* C4: when the requested tables are known and do not share one component,
\* both operations raise the no-join-path error and return no steps.
C4_DisconnectedRaises ==
    (/\ PathCall \/ (ConnectCall /\ Len(Requested) >= 2)
     /\ AllKnown
     /\ ~AllConnected)
    => NoJoinPathRaised

\* connect_tables was asked for three tables of which only two are joined.
C4_Witness ==
    /\ ConnectCall
    /\ Len(Requested) = 3
    /\ AllKnown
    /\ Connected(Requested[1], Requested[2])
    /\ ~Connected(Requested[1], Requested[3])
    /\ NoJoinPathRaised

----------------------------------------------------------------------------
(* C5 *)

\* The names _ensure_known is given: (left, right), or the deduplicated list.
Checked == IF PathCall THEN result.args ELSE Requested

UnknownRaised ==
    /\ result.status = "error"
    /\ result.error = "unknown_tables"
    /\ result.steps = <<>>
    /\ result.missing = SelectSeq(Checked, LAMBDA t : t \notin KnownTables)
    /\ Range(result.available) = KnownTables
    /\ Len(result.available) = Cardinality(KnownTables)

\* C5 as claimed: whenever a requested name is no table, either operation
\* raises the unknown-table error, listing the unknown requested names and
\* every available table.
C5_UnknownAlwaysRaises ==
    ((PathCall \/ ConnectCall) /\ ~AllKnown) => UnknownRaised

\* C5, amended: the same, for connect_tables when the list holds at least
\* two distinct names (a shorter list raises the too-few-tables error first).
C5_UnknownRaises ==
    (/\ PathCall \/ (ConnectCall /\ Len(Requested) >= 2)
     /\ ~AllKnown)
    => UnknownRaised

\* connect_tables was given two joined tables and an unknown name.
C5_Witness ==
    /\ ConnectCall
    /\ Len(Requested) = 3
    /\ ~AllKnown
    /\ \E i \in 1..3 : \E j \in 1..3 :
           /\ i /= j
           /\ Requested[i] \in KnownTables
           /\ Requested[j] \in KnownTables
           /\ Linked(Requested[i], Requested[j])
    /\ UnknownRaised

----------------------------------------------------------------------------
(* C6 *)

\* C6: connect_tables raises the too-few-tables error, and returns no steps,
\* whenever its list holds fewer than two distinct names.
C6_TooFewRaises ==
    (ConnectCall /\ Cardinality(Range(result.args)) < 2)
    => /\ result.status = "error"
       /\ result.error = "too_few_tables"
       /\ result.steps = <<>>

\* The list held one name, repeated.
C6_Witness ==
    /\ ConnectCall
    /\ Len(result.args) >= 2
    /\ Cardinality(Range(result.args)) = 1
    /\ result.error = "too_few_tables"

----------------------------------------------------------------------------
(* C7 *)

\* C7: connect_tables([A, B]), for distinct known tables of one component,
\* joins the same unordered table pairs as shortest_join_path(A, B) does on
\* the same snapshot.
C7_TwoTablesAsShortestPath ==
    (/\ ConnectCall
     /\ Len(result.args) = 2
     /\ result.args[1] /= result.args[2]
     /\ AllKnown
     /\ AllConnected)
    => LET path == ShortestJoinPathOn(cache, result.args[1], result.args[2], heap_order)
       IN  /\ result.status = "ok"
           /\ path.status = "ok"
           /\ JoinedPairs(result.steps) = JoinedPairs(path.steps)

\* Two tables were connected where two routes of equal length exist and the
\* library breaks the tie differently from either end.
C7_Witness ==
    /\ ConnectCall
    /\ Len(result.args) = 2
    /\ result.status = "ok"
    /\ Len(result.steps) = 2
    /\ Cardinality({m \in KnownTables :
                       Linked(result.args[1], m) /\ Linked(m, result.args[2])}) = 2
    /\ heap_order[cache.name_to_idx[result.args[1]]]
           /= heap_order[cache.name_to_idx[result.args[2]]]

----------------------------------------------------------------------------
(* C8 *)

\* The (table, referenced table) pairs of the declared foreign keys whose
\* referenced table the provider does not list.
Dangling ==
    {p \in KnownTables \X Range(NameOrder) :
        /\ p[2] \notin KnownTables
        /\ \E i \in 1..Len(fk_by_table[p[1]]) :
               /\ Declares(fk_by_table[p[1]][i])
               /\ fk_by_table[p[1]][i].referred_table = p[2]}

\* C8: once a snapshot is built from a schema with a dangling foreign key,
\* it knows only the provider's tables, records constraints and adjacency
\* only between tables that are joined by a non-dangling foreign key, every
\* skipped (table, referenced table) pair is in a logged warning, and a
\* join path between joined tables is still returned.
C8_DanglingSkippedAndReported ==
    (cache.built /\ Dangling /= {})
    => /\ DOMAIN cache.name_to_idx = KnownTables
       /\ \A key \in DOMAIN cache.edge_constraints :
              /\ key \subseteq KnownTables
              /\ \A i \in 1..Len(cache.edge_constraints[key]) :
                     cache.edge_constraints[key][i].to_table \in KnownTables
       /\ \A i \in DOMAIN cache.csr : \A j \in DOMAIN cache.csr :
              cache.csr[i][j] /= 0 => Linked(tables[i], tables[j])
       /\ \A p \in Dangling : \E w \in log : p \in Range(w)
       /\ (PathCall /\ AllKnown /\ AllConnected) => result.status = "ok"

\* With a dangling foreign key in the schema, a path through the table that
\* declares it was returned.
C8_Witness ==
    /\ cache.built
    /\ Dangling /= {}
    /\ PathCall
    /\ result.status = "ok"
    /\ \E i \in 1..Len(result.steps) : \E p \in Dangling :
           p[1] \in {result.steps[i].left_table, result.steps[i].right_table}

----------------------------------------------------------------------------
(* C9 *)

\* The provider's records in the order the provider supplies them: table
\* order, then each table's own order; each with its table.
RECURSIVE ProviderOrder(_)
ProviderOrder(i) ==
    IF i > Len(tables) THEN <<>>
    ELSE [k \in 1..Len(fk_by_table[tables[i]]) |->
             [table |-> tables[i], fk |-> fk_by_table[tables[i]][k]]]
         \o ProviderOrder(i + 1)

\* The constraints expected for the pair {a, b}: the declared, non-dangling
\* foreign keys between a and b, in provider order.
ExpectedConstraints(a, b) ==
    LET between == SelectSeq(ProviderOrder(1),
                        LAMBDA r : /\ Declares(r.fk)
                                   /\ r.fk.referred_table \in KnownTables
                                   /\ {r.table, r.fk.referred_table} = {a, b})
    IN  [i \in 1..Len(between) |->
            [name |-> between[i].fk.name,
             from_table |-> between[i].table,
             to_table |-> between[i].fk.referred_table,
             column_pairs |-> Zip(between[i].fk.constrained_columns,
                                  between[i].fk.referred_columns)]]

\* C9: in a built snapshot, the list recorded for each pair of tables holds
\* exactly the declared, non-dangling foreign keys between the two, each
\* once and in provider order; a pair without any has no entry.
C9_AllConstraintsInProviderOrder ==
    cache.built
    => \A a \in KnownTables : \A b \in KnownTables :
           IF ExpectedConstraints(a, b) = <<>>
           THEN {a, b} \notin DOMAIN cache.edge_constraints
           ELSE /\ {a, b} \in DOMAIN cache.edge_constraints
                /\ cache.edge_constraints[{a, b}] = ExpectedConstraints(a, b)

\* A snapshot records three foreign keys for one pair of tables, declared
\* by both of them.
C9_Witness ==
    /\ cache.built
    /\ \E key \in DOMAIN cache.edge_constraints :
           /\ Len(cache.edge_constraints[key]) = 3
           /\ \E i \in 1..3 : \E j \in 1..3 :
                  cache.edge_constraints[key][i].from_table
                      /= cache.edge_constraints[key][j].from_table

----------------------------------------------------------------------------
(* C10 *)

\* The constraints recorded for the two tables of step st.
Recorded(st) == cache.edge_constraints[{st.left_table, st.right_table}]

\* Step st is constraint c taken as it is.
UsesAsIs(st, c) ==
    /\ c.from_table = st.left_table
    /\ c.to_table = st.right_table
    /\ st.column_pairs = c.column_pairs
    /\ st.constraint_name = c.name

\* Step st is constraint c with every pair swapped.
UsesReversed(st, c) ==
    /\ c.from_table = st.right_table
    /\ c.to_table = st.left_table
    /\ st.column_pairs = SwapPairs(c.column_pairs)
    /\ st.constraint_name = c.name

\* The positions in cs of the constraints declared by table t.
DeclaredBy(cs, t) == {k \in 1..Len(cs) : cs[k].from_table = t}

\* C10 as claimed: a step uses the first recorded constraint declared by its
\* left table, as it is, whenever there is one, and a constraint declared by
\* its right table only when there is none.
C10_LeftConstraintPreferred ==
    ((PathCall \/ ConnectCall) /\ result.status = "ok")
    => \A i \in 1..Len(result.steps) :
           LET st == result.steps[i]
               cs == Recorded(st)
           IN  IF DeclaredBy(cs, st.left_table) /= {}
               THEN UsesAsIs(st, cs[Min(DeclaredBy(cs, st.left_table))])
               ELSE UsesReversed(st, cs[Min(DeclaredBy(cs, st.right_table))])

\* C10, amended: a step uses the first constraint recorded for its two
\* tables, whichever of the two declares it: as it is when the left table
\* declares it, with every pair swapped when the right table does.
C10_FirstRecordedConstraintUsed ==
    ((PathCall \/ ConnectCall) /\ result.status = "ok")
    => \A i \in 1..Len(result.steps) :
           LET st == result.steps[i]
               c == Recorded(st)[1]
           IN  IF c.from_table = st.left_table
               THEN UsesAsIs(st, c)
               ELSE UsesReversed(st, c)

\* A step was returned for two tables that both declare a foreign key to
\* the other, the right table's being recorded first.
C10_Witness ==
    /\ PathCall \/ ConnectCall
    /\ result.status = "ok"
    /\ \E i \in 1..Len(result.steps) :
           LET st == result.steps[i]
           IN  /\ DeclaredBy(Recorded(st), st.left_table) /= {}
               /\ Recorded(st)[1].from_table = st.right_table

----------------------------------------------------------------------------
(* C12 *)

\* C12: every constraint recorded in a snapshot and every step returned by
\* shortest_join_path or connect_tables holds at least one column pair,
\* whatever the provider supplies.
C12_ColumnPairsNeverEmpty ==
    /\ cache.built
       => \A key \in DOMAIN cache.edge_constraints :
              \A i \in 1..Len(cache.edge_constraints[key]) :
                  cache.edge_constraints[key][i].column_pairs /= <<>>
    /\ ((PathCall \/ ConnectCall) /\ result.status = "ok")
       => \A i \in 1..Len(result.steps) : result.steps[i].column_pairs /= <<>>

----------------------------------------------------------------------------
(* C13 *)

\* C13: shortest_join_path(A, A), for any table A of the schema, returns
\* the empty list of steps.
C13_SelfPathIsEmpty ==
    (/\ PathCall
     /\ result.args[1] = result.args[2]
     /\ result.args[1] \in KnownTables)
    => /\ result.status = "ok"
       /\ result.steps = <<>>

\* The empty path was returned for a table that declares a foreign key to
\* itself.
C13_Witness ==
    /\ PathCall
    /\ result.args[1] = result.args[2]
    /\ Refers(result.args[1], result.args[1])
    /\ result.status = "ok"
    /\ result.steps = <<>>

----------------------------------------------------------------------------
(* C14 *)

\* C14: for known tables A and B, shortest_join_path(A, B) and
\* shortest_join_path(B, A) on the same snapshot both raise or both return,
\* and then return the same number of steps.
C14_SymmetricInLength ==
    (PathCall /\ AllKnown)
    => LET back == ShortestJoinPathOn(cache, result.args[2], result.args[1], heap_order)
       IN  /\ back.status = result.status
           /\ Len(back.steps) = Len(result.steps)

\* A path of two steps was returned whose way back passes through another
\* table.
C14_Witness ==
    /\ PathCall
    /\ result.status = "ok"
    /\ Len(result.steps) = 2
    /\ LET back == ShortestJoinPathOn(cache, result.args[2], result.args[1], heap_order)
       IN  /\ back.status = "ok"
           /\ Len(back.steps) = 2
           /\ back.steps[1].right_table /= result.steps[1].right_table

----------------------------------------------------------------------------
(* C20 *)

\* The provider holds the order book.
OrderBook == tables = ShopTables /\ fk_by_table = ShopForeignKeys

\* C20: on the order book, shortest_join_path(orders, products) returns
\* exactly two steps: orders to order_items on (id, order_id), then
\* order_items to products on (product_id, id).
C20_OrdersToProducts ==
    (OrderBook /\ PathCall /\ result.args = <<"orders", "products">>)
    => /\ result.status = "ok"
       /\ Len(result.steps) = 2
       /\ result.steps[1].left_table = "orders"
       /\ result.steps[1].right_table = "order_items"
       /\ result.steps[1].column_pairs = << <<"id", "order_id">> >>
       /\ result.steps[2].left_table = "order_items"
       /\ result.steps[2].right_table = "products"
       /\ result.steps[2].column_pairs = << <<"product_id", "id">> >>

\* The path from orders to products was asked for on the order book and
\* returned.
C20_Witness ==
    /\ OrderBook
    /\ PathCall
    /\ result.args = <<"orders", "products">>
    /\ result.status = "ok"

----------------------------------------------------------------------------
(* C11 *)

----------------------------------------------------------------------------
(* C15 *)

\* Thread t is in a request and holds the snapshot that
\* `_build_snapshot(fk_info)` returned to it.
Holding(t) == pc[t] \in {"resolve", "done"} /\ frame[t].snapshot.built

----------------------------------------------------------------------------
(* C16 *)

\* C16: a request made with get_fk_info(database) after the database's
\* metadata changed and clear_cached_fk_info was called for it (with its
\* name or with no argument) is answered from the changed metadata: the
\* snapshot it holds was built from metadata that had seen the change, and
\* its outcome is the resolver's on that metadata.
C16_SignalledChangeIsSeen ==
    \A t \in Threads :
        (Holding(t) /\ frame[t].expect > 0)
        => /\ frame[t].snapshot.version >= frame[t].expect
           /\ pc[t] = "done"
              => \E v \in frame[t].expect..MaxChanges :
                     \E m \in {Metadata(v)} :
                         frame[t].result =
                             ResolveOn(BuildSnapshot(m.tables, m.fk_by_table),
                                       frame[t].op, frame[t].args)

----------------------------------------------------------------------------
(* C17 *)

\* The cached snapshots of database d: those stored under a provider object
\* of that database.
CachedFor(c, d) == {c[i].value : i \in {j \in 1..Len(c) : objects[c[j].key].database = d}}

\* C17: while clear_cache() is not called, a snapshot cached for a schema
\* identity stays the one cached for it, and every request for that identity
\* is handed that snapshot by the lookup, whichever provider object of that
\* database it carries, and never enters the body of `_build_snapshot`: the
\* provider is read by the first build only.
C17_CachedSnapshotIsReused ==
    [][clears' = clears
       => \A d \in Databases :
              CachedFor(snapshots, d) /= {}
              => /\ CachedFor(snapshots', d) = CachedFor(snapshots, d)
                 /\ \A t \in Threads :
                        (pc[t] = "idle" /\ pc'[t] \in {"build", "resolve"}
                            /\ frame'[t].database = d)
                        => /\ pc'[t] = "resolve"
                           /\ frame'[t].snapshot \in CachedFor(snapshots, d)
                           /\ objects'[frame'[t].fk_info].loaded
                                  = (objects \o <<[loaded |-> NotLoaded]>>)[frame'[t].fk_info].loaded
      ]_vars

\* A request carries a provider object other than the one the snapshot was
\* built from, for the same database, and holds that snapshot; its provider
\* has not been read.
C17_Witness ==
    \E t \in Threads :
        /\ pc[t] = "resolve"
        /\ frame[t].snapshot.built
        /\ frame[t].snapshot.fk_info /= frame[t].fk_info
        /\ objects[frame[t].snapshot.fk_info].database = frame[t].database
        /\ objects[frame[t].fk_info].loaded = NotLoaded
        /\ frame[t].snapshot \in CachedFor(snapshots, frame[t].database)

----------------------------------------------------------------------------
(* C18 *)

\* The threads that are in the body of `_build_snapshot` for database d.
Builders(d) == {t \in Threads : pc[t] = "build" /\ frame[t].database = d}

\* C18: at most one build of the snapshot of a schema identity runs at a
\* time; a request that finds a build of its identity's snapshot under way
\* does not start its own.
C18_AtMostOneBuild ==
    \A d \in Databases : Cardinality(Builders(d)) <= 1

----------------------------------------------------------------------------
(* C19 *)

\* C19: a request that has obtained a snapshot completes on that snapshot,
\* and a request made after clear_cache() has returned holds a snapshot whose
\* build began after that call: a build under way when clear_cache() ran
\* does not put its snapshot into the cache.
C19_InvalidationVersusInFlight ==
    \A t \in Threads :
        Holding(t)
        => /\ pc[t] = "done"
              => frame[t].result =
                     ResolveOn(frame[t].snapshot.g, frame[t].op, frame[t].args)
           /\ frame[t].snapshot.began >= frame[t].called

----------------------------------------------------------------------------
(* C21 *)

\* C21: on the order book, connect_tables([customers, products]) returns
\* three steps: customers to orders, orders to order_items, order_items to
\* products; the four tables are all it touches.
C21_CustomersToProducts ==
    (OrderBook /\ ConnectCall /\ result.args = <<"customers", "products">>)
    => /\ result.status = "ok"
       /\ Len(result.steps) = 3
       /\ [i \in 1..3 |-> <<result.steps[i].left_table, result.steps[i].right_table>>]
              = << <<"customers", "orders">>, <<"orders", "order_items">>,
                   <<"order_items", "products">> >>
       /\ UNION JoinedPairs(result.steps)
              = {"customers", "orders", "order_items", "products"}

\* customers and products were asked to be connected on the order book, and
\* steps were returned.
C21_Witness ==
    /\ OrderBook
    /\ ConnectCall
    /\ result.args = <<"customers", "products">>
    /\ result.status = "ok"

----------------------------------------------------------------------------
(* C22 *)

\* The line of one step, as the rendering convention has it.
StepLine(st) ==
    "JOIN \"" \o st.right_table \o "\" ON "
        \o JoinStrings(
               [i \in 1..Len(st.column_pairs) |->
                   "\"" \o st.left_table \o "\".\"" \o st.column_pairs[i][1]
                       \o "\" = \"" \o st.right_table \o "\".\""
                       \o st.column_pairs[i][2] \o "\""],
               " AND ")

\* C22: whenever the resolver call made by join_path returns steps for the
\* given list, the tool's output is the line FROM "<tables[0]>" followed by
\* one line JOIN "<right_table>" ON ... per step, in order, and the FROM
\* table is the left table of the first step (of a zero-step path, its only
\* table).
C22_OutputRendersSteps ==
    (output.returned /\ result /= Idle /\ result.status = "ok")
    => /\ output.text =
              JoinStrings(<<"FROM \"" \o output.tables[1] \o "\"">>
                              \o [i \in 1..Len(result.steps) |-> StepLine(result.steps[i])],
                          "\n")
       /\ result.steps /= <<>> => output.tables[1] = result.steps[1].left_table
       /\ result.steps = <<>> => Range(output.tables) = {output.tables[1]}

----------------------------------------------------------------------------
(* C23 *)

\* The tables of S that a walk from the set R reaches in at most n edges
\* without leaving S.
RECURSIVE WithinOf(_, _, _)
WithinOf(S, R, n) ==
    IF n = 0 THEN R
    ELSE LET near == WithinOf(S, R, n - 1)
         IN  near \cup {b \in S : \E a \in near : Linked(a, b)}

\* The tables of S are connected by foreign keys among themselves.
ConnectedAmong(S) ==
    \E a \in S : WithinOf(S, {a}, Cardinality(S)) = S

\* The number of edges of a smallest tree of foreign keys that connects the
\* set T of tables: one table less than a smallest connected set holding T.
OptimalTreeSize(T) ==
    Min({Cardinality(S) - 1 :
            S \in {X \in SUBSET KnownTables : T \subseteq X /\ ConnectedAmong(X)}})

\* The sum of the distances of the table pairs of E.
RECURSIVE SumOfDistances(_)
SumOfDistances(E) ==
    IF E = {} THEN 0
    ELSE LET e == CHOOSE x \in E : TRUE
             a == CHOOSE x \in e : TRUE
             b == CHOOSE x \in e : x /= a
         IN  Distance(a, b) + SumOfDistances(E \ {e})

\* The pairs of E, taken as edges, connect the set T.
RECURSIVE SpannedBy(_, _, _)
SpannedBy(E, R, n) ==
    IF n = 0 THEN R
    ELSE LET near == SpannedBy(E, R, n - 1)
         IN  near \cup UNION {e \in E : e \cap near /= {}}

\* The weight of a minimum spanning tree of the terminals T under pairwise
\* shortest-path distance.
TerminalTreeWeight(T) ==
    LET pairs == {{a, b} : a, b \in T} \ {{a} : a \in T}
        trees == {E \in SUBSET pairs :
                     /\ Cardinality(E) = Cardinality(T) - 1
                     /\ \E a \in T : SpannedBy(E, {a}, Cardinality(T)) = T}
    IN  Min({SumOfDistances(E) : E \in trees})

\* C23: for a connected set of at least two requested tables, connect_tables
\* returns at most as many steps as the pairwise shortest-path distances
\* along a minimum spanning tree of the requested tables add up to, and at
\* most twice the number of edges of a smallest tree connecting them.
C23_WithinTwiceOptimal ==
    (ConnectCall /\ result.status = "ok")
    => /\ Len(result.steps) <= TerminalTreeWeight(Range(Requested))
       /\ Len(result.steps) <= 2 * OptimalTreeSize(Range(Requested))

\* Three tables were connected through a fourth that was not requested, by
\* as many steps as the distances along the terminal spanning tree add up to.
C23_Witness ==
    /\ ConnectCall
    /\ result.status = "ok"
    /\ Len(Requested) = 3
    /\ UNION JoinedPairs(result.steps) \ Range(Requested) /= {}
    /\ Len(result.steps) = TerminalTreeWeight(Range(Requested))
    /\ TerminalTreeWeight(Range(Requested)) = 3

----------------------------------------------------------------------------
(* C24 *)

\* The snapshot records at least one constraint for the pair of a and b.
HasConstraints(g, a, b) ==
    {a, b} \in DOMAIN g.edge_constraints /\ g.edge_constraints[{a, b}] /= <<>>

\* C24: in every snapshot, for all tables a and b, the adjacency matrix has
\* a non-zero entry at (a, b) and at (b, a) exactly when edge_constraints
\* holds a non-empty list for the pair {a, b}; also for pairs with several
\* foreign keys, foreign keys in both directions and a table's foreign key
\* to itself.
C24_AdjacencyMatchesConstraints ==
    cache.built
    => \A a \in DOMAIN cache.name_to_idx : \A b \in DOMAIN cache.name_to_idx :
           LET i == cache.name_to_idx[a]
               j == cache.name_to_idx[b]
           IN  /\ cache.csr[i][j] /= 0 <=> HasConstraints(cache, a, b)
               /\ cache.csr[j][i] /= 0 <=> HasConstraints(cache, a, b)

\* A snapshot of a schema in which a table refers to itself, two tables
\* refer to each other, and a pair of tables is neither joined nor recorded.
C24_Witness ==
    /\ cache.built
    /\ \E a \in DOMAIN cache.name_to_idx :
           /\ HasConstraints(cache, a, a)
           /\ cache.csr[cache.name_to_idx[a]][cache.name_to_idx[a]] /= 0
    /\ \E a \in DOMAIN cache.name_to_idx : \E b \in DOMAIN cache.name_to_idx \ {a} :
           /\ HasConstraints(cache, a, b)
           /\ \E k \in 1..Len(cache.edge_constraints[{a, b}]) :
                  cache.edge_constraints[{a, b}][k].from_table = a
           /\ \E k \in 1..Len(cache.edge_constraints[{a, b}]) :
                  cache.edge_constraints[{a, b}][k].from_table = b
    /\ \E a \in DOMAIN cache.name_to_idx : \E b \in DOMAIN cache.name_to_idx :
           /\ ~HasConstraints(cache, a, b)
           /\ cache.csr[cache.name_to_idx[a]][cache.name_to_idx[b]] = 0

----------------------------------------------------------------------------
(* C27 *)

\* C27: every entry of a snapshot's adjacency matrix is 0 or 1, and it is 1
\* exactly when some foreign key joins the two tables in either direction;
\* also with several foreign keys between the same pair, foreign keys in
\* both directions, or a table's foreign key to itself.
C27_UnitAdjacency ==
    cache.built
    => \A a \in DOMAIN cache.name_to_idx : \A b \in DOMAIN cache.name_to_idx :
           LET entry == cache.csr[cache.name_to_idx[a]][cache.name_to_idx[b]]
           IN  /\ entry \in {0, 1}
               /\ entry = 1 <=> Linked(a, b)

----------------------------------------------------------------------------
(* C25 *)

\* The indices a walk from the set R reaches in at most n edges of the
\* adjacency matrix, an edge being a non-zero entry read in either direction.
RECURSIVE WalkWithin(_, _, _)
WalkWithin(csr, R, n) ==
    IF n = 0 THEN R
    ELSE LET near == WalkWithin(csr, R, n - 1)
         IN  near \cup {j \in DOMAIN csr :
                           \E i \in near : csr[i][j] /= 0 \/ csr[j][i] /= 0}

----------------------------------------------------------------------------
(* C28 *)

\* The number of steps of a result that table t occurs in.
Occurrences(steps, t) ==
    Cardinality({i \in 1..Len(steps) : t \in {steps[i].left_table, steps[i].right_table}})

----------------------------------------------------------------------------
(* C26 *)

\* C26: a step that is not an invalidation (clear_cache) discards no cached
\* snapshot: whatever was cached before the step, for whichever identity,
\* is cached after it, however many requests for other identities are made.
C26_OnlyInvalidationDiscards ==
    [][clears' = clears
       => \A i \in DOMAIN snapshots : \E j \in DOMAIN snapshots' :
              snapshots'[j] = snapshots[i]]_vars

----------------------------------------------------------------------------
(* C30 *)

\* C30: an invalidation discards the snapshot of one schema and leaves the
\* snapshots of all other schemas in place, so that the next request for
\* any of them is served from the snapshot it had.
C30_InvalidationLeavesOthers ==
    [][clears' /= clears
       => \E d \in Range(ManyDatabases) :
              \A i \in DOMAIN snapshots :
                  snapshots[i].id /= d
                  => \E j \in DOMAIN snapshots' : snapshots'[j] = snapshots[i]]_vars

----------------------------------------------------------------------------
(* C29 *)

\* C29: a snapshot built while refresh() runs in another thread is the
\* snapshot of one metadata load: of the metadata before the refresh, table
\* list and foreign keys, or of the metadata after it, never of the new
\* table list with the old foreign-key map.
C29_SnapshotOfOneLoad ==
    \A i \in DOMAIN snapshots :
        \E v \in 0..MaxChanges :
            snapshots[i].value.g
                = BuildSnapshot(Reloaded(v).tables, Reloaded(v).fk_by_table)

====
